---- MODULE Spec2Model ----
(***************************************************************************)
(* A model of the introspection library: the dynamic value container       *)
(* (std::any), the type-name resolver, the member/method descriptors built *)
(* by TypeRegistrar, the per-class catalogue (TypeInfo) with its lazy      *)
(* registration in getStaticTypeInfo, and the by-name operations of        *)
(* Introspectable, exercised on the Person class of src/main.cxx.          *)
(*                                                                         *)
(* Encoding of values: every raw value is a natural number in 0..MaxVal.   *)
(* For a std::string field the number is the index of a string in a fixed  *)
(* table (0 is the empty string); a dynamic value pairs the raw value with *)
(* the C++ type it was stored with, so that an int 1 and a double 1 have   *)
(* the same representation and differ only by their stored type.           *)
(***************************************************************************)
EXTENDS Integers, Sequences, FiniteSets, TLC

\* ------------------------------------------------------------------ bounds
MaxVal == 1
MaxArgs == 4
NumThreads == 2
MaxRegs == 3

Vals == 0..MaxVal
Threads == 1..NumThreads

\* ------------------------------------------------ dynamic value (std::any)
\* The C++ types a std::any is stored with in the model.
StoredTypes == {"std::string", "int", "double", "float", "bool"}

\* std::any{} : the empty container, whose type() is typeid(void).
EmptyAny == [type |-> "void", val |-> 0]

\* std::any{v} for a v of C++ type T.
MakeAny(T, v) == [type |-> T, val |-> v]

DynValues == {MakeAny(T, v) : T \in StoredTypes, v \in Vals} \cup {EmptyAny}

\* Variant of any_cast that converts a stored int to double.
any_castCoercing(T, a) ==
    IF a.type = T \/ (a.type = "int" /\ T = "double")
    THEN [ok |-> TRUE, val |-> a.val]
    ELSE [ok |-> FALSE, val |-> 0]

\* std::any_cast<T>(a): succeeds iff the stored type is exactly T (cv and
\* reference qualifiers of T removed); otherwise throws std::bad_any_cast.
any_cast(T, a) ==
    IF a.type = T THEN [ok |-> TRUE, val |-> a.val]
                  ELSE [ok |-> FALSE, val |-> 0]

\* ------------------------------------------------------ type name resolver
\* A C++ type as written at a registration site: base type plus qualifiers.
CppType(b) == [base |-> b, const |-> FALSE, ref |-> FALSE]
ConstRef(b) == [base |-> b, const |-> TRUE, ref |-> TRUE]

\* The explicit specialisations of getTypeName (exact, unqualified types).
Specialised == {"short", "unsigned short", "long", "unsigned long",
                "long long", "unsigned int", "size_t", "int", "double",
                "float", "bool", "void"}

\* typeid(T).name() of the primary template's fallback (Itanium ABI names;
\* typeid ignores top-level cv and reference qualifiers).
typeidName(b) ==
    CASE b = "int" -> "i"
      [] b = "double" -> "d"
      [] b = "float" -> "f"
      [] b = "bool" -> "b"
      [] b = "void" -> "v"
      [] b = "short" -> "s"
      [] b = "long" -> "l"
      [] b = "std::vector<int>" -> "St6vectorIiSaIiEE"
      [] b = "std::vector<double>" -> "St6vectorIdSaIdEE"
      [] b = "std::vector<std::string>" ->
             "St6vectorINSt7__cxx1112basic_stringIcSt11char_traitsIcESaIcEEESaIS5_EE"
      [] b = "Person" -> "6Person"
      [] OTHER -> "mangled"

getTypeName(T) ==
    IF ~T.const /\ ~T.ref /\ T.base \in Specialised THEN T.base
    ELSE IF T.base = "std::string" THEN "string"
    ELSE IF T.base = "char" THEN "char"
    ELSE IF T.base = "unsigned char" THEN "unsigned char"
    ELSE typeidName(T.base)

\* ------------------------------------------------------------ Person class
Classes == {"Person"}

\* Person::Person() : name(""), age(0), height(0.0)
PersonInit == [name |-> 0, age |-> 0, height |-> 0]

\* The bodies of Person's methods: the fields after the call and the value
\* returned (0 for a void method).  getDescription composes a string from
\* the three fields; its value is encoded injectively.
PersonBody(m, f, p) ==
    CASE m = "introduce" -> [fields |-> f, ret |-> 0]
      [] m = "getName" -> [fields |-> f, ret |-> f.name]
      [] m = "setName" -> [fields |-> [f EXCEPT !.name = p[1]], ret |-> 0]
      [] m = "getAge" -> [fields |-> f, ret |-> f.age]
      [] m = "setAge" -> [fields |-> [f EXCEPT !.age = p[1]], ret |-> 0]
      [] m = "getHeight" -> [fields |-> f, ret |-> f.height]
      [] m = "setHeight" -> [fields |-> [f EXCEPT !.height = p[1]], ret |-> 0]
      [] m = "setNameAndAge" ->
            [fields |-> [f EXCEPT !.name = p[1], !.age = p[2]], ret |-> 0]
      [] m = "setNameAgeAndHeight" ->
            [fields |-> [f EXCEPT !.name = p[1], !.age = p[2],
                                  !.height = p[3]], ret |-> 0]
      [] m = "getDescription" ->
            [fields |-> f,
             ret |-> f.name + (MaxVal + 1) * f.age
                     + (MaxVal + 1) * (MaxVal + 1) * f.height]

\* A class whose methods exercise every registration form: reset, get, set
\* and configure have the shapes the REGISTER_* macros of src/macros/main.cxx
\* are written for, and add is a non-void method of one parameter that can
\* also be called without it, int add(int k = 1), the only shape for which
\* REGISTER_METHOD_1 compiles.
CounterInit == [count |-> 0, step |-> 0]

CounterMethodNames == {"reset", "get", "set", "configure", "add"}

\* The bodies of Counter's methods; p is the list of arguments the call
\* expression passes, so add called with no argument uses its default.
CounterBody(m, f, p) ==
    CASE m = "reset" -> [fields |-> [f EXCEPT !.count = 0], ret |-> 0]
      [] m = "get" -> [fields |-> f, ret |-> f.count]
      [] m = "set" -> [fields |-> [f EXCEPT !.count = p[1]], ret |-> 0]
      [] m = "configure" ->
            [fields |-> [f EXCEPT !.count = p[1], !.step = p[2]], ret |-> 0]
      [] m = "add" ->
            LET k == IF Len(p) = 0 THEN 1 ELSE p[1]
                c == (f.count + k) % (MaxVal + 1)
            IN  [fields |-> [f EXCEPT !.count = c], ret |-> c]

\* (typed_obj->*method_ptr)(params...), or typed_obj->MethodName(params...).
Body(m, f, p) ==
    IF m \in CounterMethodNames THEN CounterBody(m, f, p)
                                ELSE PersonBody(m, f, p)

\* ------------------------------------------------------------- descriptors
\* MemberInfo built by TypeRegistrar::member(name, member_ptr): the closures
\* capture member_ptr, and MemberType is the type any_cast is asked for.
MemberEntry(n, T) ==
    [kind |-> "member", name |-> n, type_name |-> getTypeName(CppType(T)),
     member_ptr |-> n, MemberType |-> T]

\* MethodInfo built by TypeRegistrar::method(name, method_ptr) for a method
\* R (Class::*)(P1..Pn): parameter_types are the resolved tags, Params the
\* types any_cast is asked for.
MethodEntry(n, R, Ps) ==
    [kind |-> "method", name |-> n, return_type |-> getTypeName(R),
     parameter_types |-> [i \in 1..Len(Ps) |-> getTypeName(Ps[i])],
     method_ptr |-> n, ReturnType |-> R.base,
     Params |-> [i \in 1..Len(Ps) |-> Ps[i].base]]

\* Person::registerIntrospection: the chain of reg.member / reg.method calls.
PersonRegistration ==
    << MemberEntry("name", "std::string"),
       MemberEntry("age", "int"),
       MemberEntry("height", "double"),
       MethodEntry("introduce", CppType("void"), <<>>),
       MethodEntry("getName", CppType("std::string"), <<>>),
       MethodEntry("setName", CppType("void"), <<ConstRef("std::string")>>),
       MethodEntry("getAge", CppType("int"), <<>>),
       MethodEntry("setAge", CppType("void"), <<CppType("int")>>),
       MethodEntry("getHeight", CppType("double"), <<>>),
       MethodEntry("setHeight", CppType("void"), <<CppType("double")>>),
       MethodEntry("setNameAndAge", CppType("void"),
                   <<ConstRef("std::string"), CppType("int")>>),
       MethodEntry("setNameAgeAndHeight", CppType("void"),
                   <<ConstRef("std::string"), CppType("int"),
                     CppType("double")>>),
       MethodEntry("getDescription", CppType("std::string"), <<>>) >>

registerIntrospection(c) == PersonRegistration

\* ---------------------------------------------------- catalogue (TypeInfo)
\* TypeInfo info(#ClassName): both maps empty.
EmptyMap == [k \in {} |-> 0]
EmptyInfo(c) == [class_name |-> c, members |-> EmptyMap, methods |-> EmptyMap]

\* Variant of MapPut with the meaning of emplace: an equal key keeps its value.
MapPutKeepsFirst(map, key, value) ==
    [k \in (DOMAIN map) \cup {key} |->
        IF k \in DOMAIN map THEN map[k] ELSE value]

\* map[key] = value on an unordered_map: insert, or overwrite an equal key.
MapPut(map, key, value) ==
    [k \in (DOMAIN map) \cup {key} |-> IF k = key THEN value ELSE map[k]]

\* Variant of addMember that files the descriptor under its type name.
addMemberByType(ti, member) ==
    [ti EXCEPT !.members = MapPut(ti.members, member.type_name, member)]

\* members[member->name] = std::move(member);
addMember(ti, member) ==
    [ti EXCEPT !.members = MapPut(ti.members, member.name, member)]

addMethod(ti, method) ==
    [ti EXCEPT !.methods = MapPut(ti.methods, method.name, method)]

\* getMember / getMethod: find(name); the result is nullptr iff absent.
hasMemberEntry(ti, n) == n \in DOMAIN ti.members
hasMethodEntry(ti, n) == n \in DOMAIN ti.methods

\* The pointer a lookup returns: the descriptor, or nullptr.
nullptr == [kind |-> "nullptr"]
getMember(ti, n) == IF n \in DOMAIN ti.members THEN ti.members[n] ELSE nullptr
getMethod(ti, n) == IF n \in DOMAIN ti.methods THEN ti.methods[n] ELSE nullptr

getMemberNames(ti) == DOMAIN ti.members
getMethodNames(ti) == DOMAIN ti.methods

\* for (const auto &pair : map) names.push_back(pair.first): the iteration
\* visits every element of the unordered_map once, in an unspecified order.
\* The set holds every vector the loop can build.
KeyVectors(map) ==
    {v \in [1..Cardinality(DOMAIN map) -> DOMAIN map] :
        \A i, j \in DOMAIN v : i # j => v[i] # v[j]}

getMemberNamesVector(ti) == KeyVectors(ti.members)
getMethodNamesVector(ti) == KeyVectors(ti.methods)

\* One step of the registration callback: reg.member or reg.method.
Register(ti, e) ==
    IF e.kind = "member" THEN addMember(ti, e) ELSE addMethod(ti, e)

\* ------------------------------------------------- closures of descriptors
\* getter: std::any{typed_obj->*member_ptr}
Getter(mi, f) == MakeAny(mi.MemberType, f[mi.member_ptr])

\* Variant of the setter that checks the type but does not assign.
SetterDropsValue(mi, f, value) ==
    LET c == any_cast(mi.MemberType, value)
    IN  IF c.ok THEN [status |-> "ok", fields |-> f]
                ELSE [status |-> "TypeMismatch", fields |-> f]

\* Variant of the setter that resets the field before the cast is checked.
SetterAssignsFirst(mi, f, value) ==
    LET c == any_cast(mi.MemberType, value)
    IN  IF c.ok
        THEN [status |-> "ok", fields |-> [f EXCEPT ![mi.member_ptr] = c.val]]
        ELSE [status |-> "TypeMismatch",
              fields |-> [f EXCEPT ![mi.member_ptr] = 0]]

\* setter: typed_obj->*member_ptr = std::any_cast<MemberType>(value);
\* the cast is evaluated (and may throw) before the assignment.
Setter(mi, f, value) ==
    LET c == any_cast(mi.MemberType, value)
    IN  IF c.ok
        THEN [status |-> "ok", fields |-> [f EXCEPT ![mi.member_ptr] = c.val]]
        ELSE [status |-> "TypeMismatch", fields |-> f]

\* Variant of ReadArg that checks the stored type of the first argument only.
ReadArgFirstOnly(P, args, i) ==
    IF i > Len(args)
    THEN {[status |-> "UB", val |-> 0], [status |-> "TypeMismatch", val |-> 0]}
         \cup {[status |-> "ok", val |-> v] : v \in Vals}
    ELSE LET c == any_cast(P, args[i])
         IN  {IF c.ok \/ i > 1 THEN [status |-> "ok", val |-> args[i].val]
                               ELSE [status |-> "TypeMismatch", val |-> 0]}

\* Reading args[i] in the invoker.  Inside the vector it is any_cast of the
\* element.  Past the end of the vector, operator[] is undefined behaviour:
\* the read may crash, may yield bytes any_cast rejects, or may yield bytes
\* any_cast accepts as some value of the parameter type.
ReadArg(P, args, i) ==
    IF i > Len(args)
    THEN {[status |-> "UB", val |-> 0], [status |-> "TypeMismatch", val |-> 0]}
         \cup {[status |-> "ok", val |-> v] : v \in Vals}
    ELSE LET c == any_cast(P, args[i])
         IN  {IF c.ok THEN [status |-> "ok", val |-> c.val]
                      ELSE [status |-> "TypeMismatch", val |-> 0]}

\* auto param1 = any_cast<Param1>(args[0]); auto param2 = ...: the parameters
\* are extracted left to right, the first failure ends the extraction.  at is
\* the position of the any_cast that failed (0 when none did).
RECURSIVE Extract(_, _, _)
Extract(Ps, args, i) ==
    IF i > Len(Ps) THEN {[status |-> "ok", vals |-> << >>, at |-> 0]}
    ELSE UNION { IF h.status = "ok"
                 THEN {[status |-> r.status,
                        vals |-> IF r.status = "ok" THEN <<h.val>> \o r.vals
                                                    ELSE << >>,
                        at |-> r.at]
                       : r \in Extract(Ps, args, i + 1)}
                 ELSE {[status |-> h.status, vals |-> << >>, at |-> i]}
               : h \in ReadArg(Ps[i], args, i) }

\* Variant of the invoker that runs the method and discards what it returns.
InvokerDropsResult(mi, f, args) ==
    { IF e.status = "ok"
      THEN LET b == Body(mi.method_ptr, f, e.vals)
           IN  [status |-> "ok", fields |-> b.fields, invoked |-> TRUE,
                ret |-> EmptyAny, at |-> 0]
      ELSE [status |-> e.status, fields |-> f, invoked |-> FALSE,
            ret |-> EmptyAny, at |-> e.at]
      : e \in Extract(mi.Params, args, 1) }

\* The invoker closure of a method descriptor: extract every parameter, then
\* call the method and wrap its result (std::any{} for a void method).  The
\* set holds every outcome the call can have; invoked tells whether the
\* method itself was run.
Invoker(mi, f, args) ==
    { IF e.status = "ok"
      THEN LET b == Body(mi.method_ptr, f, e.vals)
           IN  [status |-> "ok", fields |-> b.fields, invoked |-> TRUE,
                ret |-> IF mi.ReturnType = "void" THEN EmptyAny
                        ELSE MakeAny(mi.ReturnType, b.ret),
                at |-> 0]
      ELSE [status |-> e.status, fields |-> f, invoked |-> FALSE,
            ret |-> EmptyAny, at |-> e.at]
      : e \in Extract(mi.Params, args, 1) }

\* ------------------------------------------------- Introspectable, by name
\* "ok" is a normal return; "NotFound" is the std::runtime_error thrown for
\* an unknown name; "TypeMismatch" is std::bad_any_cast; "ArityMismatch"
\* names a failure reporting the argument count; "UB" is undefined behaviour.
Statuses == {"ok", "NotFound", "TypeMismatch", "ArityMismatch", "UB"}

getMemberValue(ti, f, n) ==
    IF hasMemberEntry(ti, n)
    THEN [status |-> "ok", ret |-> Getter(ti.members[n], f)]
    ELSE [status |-> "NotFound", ret |-> EmptyAny]

setMemberValue(ti, f, n, value) ==
    IF hasMemberEntry(ti, n)
    THEN Setter(ti.members[n], f, value)
    ELSE [status |-> "NotFound", fields |-> f]

\* Variant of callMethod that returns an empty value for an unknown name.
callMethodSilent(ti, f, n, args) ==
    IF hasMethodEntry(ti, n)
    THEN Invoker(ti.methods[n], f, args)
    ELSE {[status |-> "ok", fields |-> f, invoked |-> FALSE,
           ret |-> EmptyAny, at |-> 0]}

callMethod(ti, f, n, args) ==
    IF hasMethodEntry(ti, n)
    THEN Invoker(ti.methods[n], f, args)
    ELSE {[status |-> "NotFound", fields |-> f, invoked |-> FALSE,
           ret |-> EmptyAny, at |-> 0]}

\* ------------------------------------------------------------------ inputs
Objects == {"p1"}
ClassOf(o) == "Person"

MemberNames == {"name", "age", "height"}
MethodNames == {"introduce", "getName", "setName", "getAge", "setAge",
                "getHeight", "setHeight", "setNameAndAge",
                "setNameAgeAndHeight", "getDescription"}
\* Names passed to the by-name operations: every registered name and one
\* that no class registers.
NameInputs == MemberNames \cup MethodNames \cup {"weight"}

\* Argument lists: every list up to MaxArgs long of values stored with one
\* of the types main passes or with bool; the value at position i is
\* v + i - 1 (modulo the value range) for a chosen v.
ArgTypes == {"std::string", "int", "double", "bool"}

ArgLists ==
    UNION { { [i \in 1..n |-> MakeAny(ts[i], (v + i - 1) % (MaxVal + 1))]
              : ts \in [1..n -> ArgTypes], v \in Vals }
            : n \in 0..MaxArgs }

TypesOf(args) == [i \in 1..Len(args) |-> args[i].type]

\* ------------------------------------------------------------------- state
VARIABLES fields,       \* fields[o]: the data members of object o
          info,         \* info[c]: the static TypeInfo of class c
          initialized,  \* initialized[c]: the static flag of getStaticTypeInfo
          pc,           \* pc[t]: where thread t is in its current call
          cur,          \* cur[t]: the class whose accessor thread t is in
          regStep,      \* regStep[t]: registrations done by t's callback run
          regRuns,      \* regRuns[c]: how many times the callback was started
          last,         \* the latest completed by-name operation
          ub,           \* undefined behaviour has occurred
          log,          \* log[c]: the descriptors registered on info[c] so far
          result,       \* what the latest query of a catalogue returned
          argv,         \* the argument vector of the latest call by name
          gen,          \* the binding generator: its kind and its fields
          stack,        \* the accessor calls in progress, innermost last
          srv           \* the WebSocket GUI server and its threads

\* The variables of the by-name operations, and those of the other components.
coreVars == <<fields, initialized, pc, cur, regStep, regRuns, ub>>
extVars == <<log, result, argv, gen, stack, srv>>
srvVars == <<stack, srv>>

vars == <<fields, info, initialized, pc, cur, regStep, regRuns, last, ub,
          log, result, argv, gen, stack, srv>>

\* The exception object a failed operation throws to its caller:
\* std::bad_any_cast, whose only content is the fixed text of what(), or the
\* std::runtime_error built from the name that was not found.
Exception(op, n, st) ==
    CASE st = "TypeMismatch" ->
           [type |-> "std::bad_any_cast", what |-> <<"bad any_cast">>]
      [] st = "NotFound" ->
           [type |-> "std::runtime_error",
            what |-> <<IF op = "callMethod" THEN "Method '" ELSE "Member '",
                       n, "' not found">>]
      [] OTHER -> [type |-> "none", what |-> << >>]

\* The record of a by-name operation: what was asked and what came back.
\* at is the position of the argument whose extraction failed (0 when no
\* extraction failed); it is known to the invoker only.
Call(op, o, n, ts, a, st, r, ns, inv) ==
    [op |-> op, obj |-> o, name |-> n, argTypes |-> ts, arg |-> a,
     status |-> st, ret |-> r, names |-> ns, invoked |-> inv,
     error |-> Exception(op, n, st), at |-> 0]

\* The record of a query of a catalogue: what was asked and what came back.
Result(op, c, n, st, v) ==
    [op |-> op, class |-> c, name |-> n, status |-> st, value |-> v]

\* Nothing has been asked of a catalogue yet.
NoResult == Result("none", "none", "", "ok", << >>)

\* No WebSocketGuiServer has been constructed.
NoServer == [kind |-> "none"]

\* No binding generator has been constructed.
NoGenerator ==
    [kind |-> "none", bound_classes |-> {}, exports |-> EmptyMap,
     converters |-> EmptyMap]

NoCall ==
    Call("none", "none", "", << >>, EmptyAny, "ok", EmptyAny, {}, FALSE)

Init ==
    /\ fields = [o \in Objects |-> PersonInit]
    /\ info = [c \in Classes |-> EmptyInfo(c)]
    /\ initialized = [c \in Classes |-> FALSE]
    /\ pc = [t \in Threads |-> "idle"]
    /\ cur = [t \in Threads |-> "none"]
    /\ regStep = [t \in Threads |-> 0]
    /\ regRuns = [c \in Classes |-> 0]
    /\ last = NoCall
    /\ ub = FALSE
    /\ log = [c \in Classes |-> << >>]
    /\ result = NoResult
    /\ argv = << >>
    /\ gen = NoGenerator
    /\ stack = << >>
    /\ srv = NoServer

\* ------------------------------------------- getStaticTypeInfo, step by step
\* The state of a class in the lazy-registration state machine.
ClassState(c) ==
    IF initialized[c] THEN "Registered"
    ELSE IF \E t \in Threads : pc[t] = "registering" /\ cur[t] = c
         THEN "Registering"
         ELSE "Unregistered"

\* A by-name operation (or a generator) on class c calls getTypeInfo(), which
\* enters getStaticTypeInfo().
CallAccessor(t, c) ==
    /\ ~ub
    /\ pc[t] = "idle"
    /\ pc' = [pc EXCEPT ![t] = "check"]
    /\ cur' = [cur EXCEPT ![t] = c]
    /\ last' = NoCall
    /\ UNCHANGED <<fields, info, initialized, regStep, regRuns, ub>>
    /\ UNCHANGED extVars

\* Variant of the check that waits while another thread is registering.
CheckInitializedOnce(t) ==
    /\ ~ub
    /\ pc[t] = "check"
    /\ ~\E u \in Threads \ {t} : pc[u] = "registering" /\ cur[u] = cur[t]
    /\ IF initialized[cur[t]]
       THEN /\ pc' = [pc EXCEPT ![t] = "ready"]
            /\ UNCHANGED <<regStep, regRuns>>
       ELSE /\ pc' = [pc EXCEPT ![t] = "registering"]
            /\ regStep' = [regStep EXCEPT ![t] = 0]
            /\ regRuns' = [regRuns EXCEPT ![cur[t]] = @ + 1]
    /\ UNCHANGED <<fields, info, initialized, cur, last, ub>>
    /\ UNCHANGED extVars

\* if (!initialized) { registerIntrospection(...) ... } return info;
CheckInitialized(t) ==
    /\ ~ub
    /\ pc[t] = "check"
    /\ IF initialized[cur[t]]
       THEN /\ pc' = [pc EXCEPT ![t] = "ready"]
            /\ UNCHANGED <<regStep, regRuns>>
       ELSE /\ pc' = [pc EXCEPT ![t] = "registering"]
            /\ regStep' = [regStep EXCEPT ![t] = 0]
            /\ regRuns' = [regRuns EXCEPT ![cur[t]] = @ + 1]
    /\ UNCHANGED <<fields, info, initialized, cur, last, ub>>
    /\ UNCHANGED extVars

\* The next reg.member / reg.method call of the registration callback.
RegisterStep(t) ==
    /\ ~ub
    /\ pc[t] = "registering"
    /\ regStep[t] < Len(registerIntrospection(cur[t]))
    /\ info' = [info EXCEPT ![cur[t]] =
                  Register(@, registerIntrospection(cur[t])[regStep[t] + 1])]
    /\ regStep' = [regStep EXCEPT ![t] = @ + 1]
    /\ UNCHANGED <<fields, initialized, pc, cur, regRuns, last, ub>>
    /\ UNCHANGED extVars

\* Variant of the end of the registration that leaves the flag unset.
SetInitializedForgets(t) ==
    /\ ~ub
    /\ pc[t] = "registering"
    /\ regStep[t] = Len(registerIntrospection(cur[t]))
    /\ pc' = [pc EXCEPT ![t] = "ready"]
    /\ regStep' = [regStep EXCEPT ![t] = 0]
    /\ UNCHANGED <<fields, info, initialized, cur, regRuns, last, ub>>
    /\ UNCHANGED extVars

\* initialized = true; return info;
SetInitialized(t) ==
    /\ ~ub
    /\ pc[t] = "registering"
    /\ regStep[t] = Len(registerIntrospection(cur[t]))
    /\ initialized' = [initialized EXCEPT ![cur[t]] = TRUE]
    /\ pc' = [pc EXCEPT ![t] = "ready"]
    /\ regStep' = [regStep EXCEPT ![t] = 0]
    /\ UNCHANGED <<fields, info, cur, regRuns, last, ub>>
    /\ UNCHANGED extVars

\* Two threads in the accessor of one class with no synchronisation: a write
\* to the catalogue by a registering thread that overlaps another thread's
\* write or read of it is a data race, after which the behaviour of the
\* program is undefined.
Overlap(t) ==
    /\ pc[t] \in {"registering", "ready"}
    /\ \E u \in Threads \ {t} :
          /\ cur[u] = cur[t]
          /\ pc[u] = "registering"

DataRace(t) ==
    /\ ~ub
    /\ Overlap(t)
    /\ ub' = TRUE
    /\ UNCHANGED <<fields, info, initialized, pc, cur, regStep, regRuns, last>>
    /\ UNCHANGED extVars

\* ----------------------------------------- by-name operations as actions
\* Each is the body of the Introspectable method once getTypeInfo() has
\* returned the catalogue of the receiver's class.
Ready(t, o) == ~ub /\ pc[t] = "ready" /\ ClassOf(o) = cur[t]

\* The receivers thread t can operate on now.
Receivers(t) == {o \in Objects : Ready(t, o)}

Return(t) ==
    /\ pc' = [pc EXCEPT ![t] = "idle"]
    /\ cur' = [cur EXCEPT ![t] = "none"]
    /\ UNCHANGED <<info, initialized, regStep, regRuns>>
    /\ UNCHANGED extVars

GetMemberValue(t, o, n) ==
    /\ Ready(t, o)
    /\ LET r == getMemberValue(info[cur[t]], fields[o], n)
       IN  last' = Call("getMemberValue", o, n, << >>, EmptyAny,
                        r.status, r.ret, {}, FALSE)
    /\ Return(t)
    /\ UNCHANGED <<fields, ub>>

SetMemberValue(t, o, n, value) ==
    /\ Ready(t, o)
    /\ LET r == setMemberValue(info[cur[t]], fields[o], n, value)
       IN  /\ fields' = [fields EXCEPT ![o] = r.fields]
           /\ last' = Call("setMemberValue", o, n, << >>, value,
                           r.status, EmptyAny, {}, FALSE)
    /\ Return(t)
    /\ UNCHANGED ub

CallMethod(t, o, n, args) ==
    /\ Ready(t, o)
    /\ \E r \in callMethod(info[cur[t]], fields[o], n, args) :
          /\ fields' = [fields EXCEPT ![o] = r.fields]
          /\ last' = [Call("callMethod", o, n, TypesOf(args), EmptyAny,
                           r.status, r.ret, {}, r.invoked)
                         EXCEPT !.at = r.at]
          /\ ub' = (r.status = "UB")
    /\ Return(t)

\* Variant of hasMember that looks the name up with operator[], which
\* inserts an entry for a name the map does not hold.
HasMemberInserts(t, o, n) ==
    /\ Ready(t, o)
    /\ last' = Call("hasMember", o, n, << >>, EmptyAny, "ok",
                    MakeAny("bool", IF hasMemberEntry(info[cur[t]], n)
                                    THEN 1 ELSE 0), {}, FALSE)
    /\ info' = [info EXCEPT ![cur[t]] =
                  IF hasMemberEntry(@, n) THEN @
                  ELSE addMember(@, MemberEntry(n, "void"))]
    /\ pc' = [pc EXCEPT ![t] = "idle"]
    /\ cur' = [cur EXCEPT ![t] = "none"]
    /\ UNCHANGED <<fields, initialized, regStep, regRuns, ub>>
    /\ UNCHANGED extVars

HasMember(t, o, n) ==
    /\ Ready(t, o)
    /\ last' = Call("hasMember", o, n, << >>, EmptyAny, "ok",
                    MakeAny("bool", IF hasMemberEntry(info[cur[t]], n)
                                    THEN 1 ELSE 0), {}, FALSE)
    /\ Return(t)
    /\ UNCHANGED <<fields, ub>>

HasMethod(t, o, n) ==
    /\ Ready(t, o)
    /\ last' = Call("hasMethod", o, n, << >>, EmptyAny, "ok",
                    MakeAny("bool", IF hasMethodEntry(info[cur[t]], n)
                                    THEN 1 ELSE 0), {}, FALSE)
    /\ Return(t)
    /\ UNCHANGED <<fields, ub>>

GetMemberNames(t, o) ==
    /\ Ready(t, o)
    /\ last' = Call("getMemberNames", o, "", << >>, EmptyAny, "ok",
                    EmptyAny, getMemberNames(info[cur[t]]), FALSE)
    /\ Return(t)
    /\ UNCHANGED <<fields, ub>>

GetMethodNames(t, o) ==
    /\ Ready(t, o)
    /\ last' = Call("getMethodNames", o, "", << >>, EmptyAny, "ok",
                    EmptyAny, getMethodNames(info[cur[t]]), FALSE)
    /\ Return(t)
    /\ UNCHANGED <<fields, ub>>

\* printMemberValue: prints the value of a known member, or "not found";
\* it never throws for an unknown name.  The printed value is in ret.
PrintMemberValue(t, o, n) ==
    /\ Ready(t, o)
    /\ LET r == getMemberValue(info[cur[t]], fields[o], n)
       IN  last' = Call("printMemberValue", o, n, << >>, EmptyAny, "ok",
                        r.ret, {}, FALSE)
    /\ Return(t)
    /\ UNCHANGED <<fields, ub>>

\* printClassInfo: prints every member and method name with its signature.
PrintClassInfo(t, o) ==
    /\ Ready(t, o)
    /\ last' = Call("printClassInfo", o, "", << >>, EmptyAny, "ok", EmptyAny,
                    getMemberNames(info[cur[t]])
                    \cup getMethodNames(info[cur[t]]), FALSE)
    /\ Return(t)
    /\ UNCHANGED <<fields, ub>>

\* The caller extracts a dynamic value it holds at a type of its choice, as
\* main does with the result of callMethod("getDescription").  The values it
\* holds are the one it passed to and the one it got from its latest
\* operation.
Held == {last.arg, last.ret}

AnyCast(t, T, a) ==
    /\ ~ub
    /\ pc[t] = "idle"
    /\ a \in Held
    /\ LET c == any_cast(T, a)
       IN  last' = Call("any_cast", "none", T, << >>, a,
                        IF c.ok THEN "ok" ELSE "TypeMismatch",
                        IF c.ok THEN MakeAny(T, c.val) ELSE EmptyAny,
                        {}, FALSE)
    /\ UNCHANGED <<fields, info, initialized, pc, cur, regStep, regRuns, ub>>
    /\ UNCHANGED extVars

\* ---------------------------------------------------------- specifications
\* A sequential program: one thread makes by-name calls one after another.
MainThread == 1

Next ==
    \/ \E c \in Classes : CallAccessor(MainThread, c)
    \/ CheckInitialized(MainThread)
    \/ RegisterStep(MainThread)
    \/ SetInitialized(MainThread)
    \/ \E o \in Receivers(MainThread), n \in NameInputs :
          GetMemberValue(MainThread, o, n)
    \/ \E o \in Receivers(MainThread), n \in NameInputs, v \in DynValues :
          SetMemberValue(MainThread, o, n, v)
    \/ \E o \in Receivers(MainThread), n \in NameInputs, args \in ArgLists :
          CallMethod(MainThread, o, n, args)
    \/ \E o \in Receivers(MainThread), n \in NameInputs :
          HasMember(MainThread, o, n)
    \/ \E o \in Receivers(MainThread), n \in NameInputs :
          HasMethod(MainThread, o, n)
    \/ \E o \in Receivers(MainThread) : GetMemberNames(MainThread, o)
    \/ \E o \in Receivers(MainThread) : GetMethodNames(MainThread, o)
    \/ \E o \in Receivers(MainThread), n \in NameInputs :
          PrintMemberValue(MainThread, o, n)
    \/ \E o \in Receivers(MainThread) : PrintClassInfo(MainThread, o)
    \/ \E T \in StoredTypes, a \in Held : AnyCast(MainThread, T, a)

Spec == Init /\ [][Next]_vars

\* A concurrent program: several threads call the accessor of a class and
\* look names up in the catalogue it returns.
NextConc ==
    \E t \in Threads :
        \/ \E c \in Classes : CallAccessor(t, c)
        \/ CheckInitialized(t)
        \/ RegisterStep(t)
        \/ SetInitialized(t)
        \/ DataRace(t)
        \/ \E o \in Receivers(t), n \in NameInputs : HasMember(t, o, n)
        \/ \E o \in Receivers(t), n \in NameInputs : HasMethod(t, o, n)

SpecConc == Init /\ [][NextConc]_vars

\* ------------------------------------------------------------------ claims
\* The catalogue of the receiver of operation l, and what l asked of it.
InfoOf(l) == info[ClassOf(l.obj)]

IsCallOf(l, ti) == l.op = "callMethod" /\ hasMethodEntry(ti, l.name)
IsSetOf(l, ti) == l.op = "setMemberValue" /\ hasMemberEntry(ti, l.name)

Arity(l, ti) == Len(ti.methods[l.name].parameter_types)

\* The positions of l's argument list that the invoker extracts and whose
\* stored type is not the declared parameter type.
WrongTyped(l, ti) ==
    {i \in 1..Len(l.argTypes) :
        i <= Arity(l, ti) /\ l.argTypes[i] # ti.methods[l.name].Params[i]}

\* C1: a call of a registered method with an argument list whose length is
\* not the method's arity fails with ArityMismatch, the method is not run
\* and no field of the receiver changes.
C1_WrongArityFails ==
    [][ (IsCallOf(last', InfoOf(last'))
         /\ Len(last'.argTypes) # Arity(last', InfoOf(last')))
        => (/\ last'.status = "ArityMismatch"
            /\ ~last'.invoked
            /\ fields' = fields) ]_vars

\* C2: setting a registered member of type T to a value of type T succeeds,
\* and getMemberValue of that member on the same instance then returns a
\* dynamic value of type T holding exactly that value.
C2_SetThenGet ==
    (IsSetOf(last, InfoOf(last))
     /\ last.arg.type = InfoOf(last).members[last.name].MemberType)
    => (/\ last.status = "ok"
        /\ getMemberValue(InfoOf(last), fields[last.obj], last.name)
             = [status |-> "ok", ret |-> last.arg])

C2_Witness ==
    /\ last.op = "setMemberValue"
    /\ last.name = "age"
    /\ last.arg = MakeAny("int", MaxVal)
    /\ last.status = "ok"

\* C3: a call of a registered method with the right number of arguments, one
\* of which is stored with a type other than the declared parameter type,
\* fails with TypeMismatch; the method is not run and no field changes.
C3_WrongTypeFails ==
    [][ (/\ IsCallOf(last', InfoOf(last'))
         /\ Len(last'.argTypes) = Arity(last', InfoOf(last'))
         /\ WrongTyped(last', InfoOf(last')) # {})
        => (/\ last'.status = "TypeMismatch"
            /\ ~last'.invoked
            /\ fields' = fields) ]_vars

\* A call of setNameAndAge whose first argument is a string and whose second
\* is not an int has failed.
C3_Witness ==
    /\ last.op = "callMethod"
    /\ last.name = "setNameAndAge"
    /\ last.argTypes = <<"std::string", "double">>
    /\ last.status = "TypeMismatch"

\* C4: setting a registered member of type T to a dynamic value stored with
\* another type fails with TypeMismatch, and getMemberValue of that member
\* returns afterwards what it returned before the call.
C4_WrongTypeSetFails ==
    [][ (/\ IsSetOf(last', InfoOf(last'))
         /\ last'.arg.type # InfoOf(last').members[last'.name].MemberType)
        => (/\ last'.status = "TypeMismatch"
            /\ getMemberValue(info'[ClassOf(last'.obj)],
                              fields'[last'.obj], last'.name)
                 = getMemberValue(InfoOf(last'), fields[last'.obj],
                                  last'.name)
            /\ fields' = fields) ]_vars

\* A set of the string member with an int has failed on an object whose
\* name is not the empty string.
C4_Witness ==
    /\ last.op = "setMemberValue"
    /\ last.name = "name"
    /\ last.arg.type = "int"
    /\ last.status = "TypeMismatch"
    /\ fields[last.obj].name # 0

\* C5: a call whose argument list has the wrong length and whose first
\* argument has the wrong type is reported as ArityMismatch, not as
\* TypeMismatch, and no argument position outside the list is read.
C5_ArityCheckedFirst ==
    [][ (/\ IsCallOf(last', InfoOf(last'))
         /\ Len(last'.argTypes) # Arity(last', InfoOf(last'))
         /\ 1 \in WrongTyped(last', InfoOf(last')))
        => last'.status = "ArityMismatch" ]_vars

\* C9: extracting a dynamic value at a type other than its stored type fails
\* with TypeMismatch: in a direct any_cast, in a member setter, and in the
\* extraction of a method argument.
C9_NoCoercion ==
    /\ (last.op = "any_cast" /\ last.arg.type # last.name)
         => last.status = "TypeMismatch"
    /\ (/\ IsSetOf(last, InfoOf(last))
        /\ last.arg.type # InfoOf(last).members[last.name].MemberType)
         => last.status = "TypeMismatch"
    /\ (IsCallOf(last, InfoOf(last)) /\ WrongTyped(last, InfoOf(last)) # {})
         => last.status = "TypeMismatch"

\* An int was given where a double is declared, and the operation failed.
C9_Witness ==
    /\ last.op = "setMemberValue"
    /\ last.name = "height"
    /\ last.arg = MakeAny("int", MaxVal)
    /\ last.status = "TypeMismatch"

\* C10: getMemberValue, setMemberValue and callMethod with a name that is
\* not registered fail with NotFound and change no field of the receiver.
C10_UnknownNameFails ==
    [][ (\/ (last'.op \in {"getMemberValue", "setMemberValue"}
             /\ ~hasMemberEntry(InfoOf(last'), last'.name))
         \/ (last'.op = "callMethod"
             /\ ~hasMethodEntry(InfoOf(last'), last'.name)))
        => (last'.status = "NotFound" /\ fields' = fields) ]_vars

\* A call of a method no class registers has failed on an object whose
\* fields had been changed before.
C10_Witness ==
    /\ last.op = "callMethod"
    /\ last.name = "weight"
    /\ last.status = "NotFound"
    /\ fields[last.obj].age # 0

\* The steps of the lazy-registration state machine of a class.
Allowed(s1, s2) ==
    \/ s1 = s2
    \/ s1 = "Unregistered" /\ s2 = "Registering"
    \/ s1 = "Registering" /\ s2 = "Registered"

C7_FirstAccessRaces ==
    \A t \in Threads :
      (~ub /\ pc[t] = "check" /\ ~initialized[cur[t]])
        => ENABLED (CheckInitialized(t) /\ pc'[t] = "registering")

\* Two threads are running the registration callback of one class at once.
C7_Witness ==
    \E t, u \in Threads :
      /\ t # u
      /\ pc[t] = "registering" /\ pc[u] = "registering"
      /\ cur[t] = cur[u]
      /\ regRuns[cur[t]] >= 2
      /\ regStep[t] > 0 /\ regStep[u] > 0

\* C8: the catalogue of a class changes only while its registration
\* callback runs; once the class is Registered no operation changes it.
C8_CatalogueReadOnly ==
    [][ \A c \in Classes :
          /\ initialized[c] => info'[c] = info[c]
          /\ info'[c] # info[c]
               => \E t \in Threads : pc[t] = "registering" /\ cur[t] = c ]_vars

\* The class is Registered and operations have read and changed an object.
C8_Witness ==
    /\ initialized["Person"]
    /\ last.op = "hasMember"
    /\ last.name = "weight"
    /\ \E o \in Objects : fields[o].name # 0

\* ================================================== registration sequences
\* A registration callback is any chain of reg.member / reg.method calls.
\* The descriptors it may register: two member names and two method names,
\* each with two different signatures, so that a name can be registered
\* again with another descriptor; "age" names a member and a method.
RegMembers ==
    {MemberEntry(n, T) : n \in {"age", "name"}, T \in {"int", "std::string"}}

RegMethods ==
    {MethodEntry(n, CppType("int"), << >>) : n \in {"age", "getAge"}}
    \cup {MethodEntry(n, CppType("void"), <<CppType("int")>>)
          : n \in {"age", "getAge"}}

RegNames == {"age", "name", "getAge", "weight"}

\* reg.member(name, ptr): TypeInfo::addMember on the catalogue of class c.
AddMember(c, e) ==
    /\ Len(log[c]) < MaxRegs
    /\ info' = [info EXCEPT ![c] = addMember(@, e)]
    /\ log' = [log EXCEPT ![c] = Append(@, e)]
    /\ result' = Result("addMember", c, e.name, "ok", << >>)
    /\ UNCHANGED <<coreVars, last, argv, gen>>
    /\ UNCHANGED srvVars

\* reg.method(name, ptr): TypeInfo::addMethod on the catalogue of class c.
AddMethod(c, e) ==
    /\ Len(log[c]) < MaxRegs
    /\ info' = [info EXCEPT ![c] = addMethod(@, e)]
    /\ log' = [log EXCEPT ![c] = Append(@, e)]
    /\ result' = Result("addMethod", c, e.name, "ok", << >>)
    /\ UNCHANGED <<coreVars, last, argv, gen>>
    /\ UNCHANGED srvVars

GetMember(c, n) ==
    /\ result' = Result("getMember", c, n, "ok", getMember(info[c], n))
    /\ UNCHANGED <<coreVars, info, last, log, argv, gen>>
    /\ UNCHANGED srvVars

GetMethod(c, n) ==
    /\ result' = Result("getMethod", c, n, "ok", getMethod(info[c], n))
    /\ UNCHANGED <<coreVars, info, last, log, argv, gen>>
    /\ UNCHANGED srvVars

ListMemberNames(c) ==
    /\ \E v \in getMemberNamesVector(info[c]) :
          result' = Result("getMemberNames", c, "", "ok", v)
    /\ UNCHANGED <<coreVars, info, last, log, argv, gen>>
    /\ UNCHANGED srvVars

ListMethodNames(c) ==
    /\ \E v \in getMethodNamesVector(info[c]) :
          result' = Result("getMethodNames", c, "", "ok", v)
    /\ UNCHANGED <<coreVars, info, last, log, argv, gen>>
    /\ UNCHANGED srvVars

\* The types a registration site resolves a tag for: a built-in type as it
\* is written for a member, a parameter or a return value.
TypeInputs ==
    [base : {"int", "double", "float", "bool", "std::string"},
     const : BOOLEAN, ref : BOOLEAN]

\* getTypeName<T>() evaluated by TypeRegistrar for a member, parameter or
\* return type T.  The class field of the result holds the base type.
ResolveTypeName(T) ==
    /\ result' = Result("getTypeName", T.base, "", "ok",
                        [T |-> T, tag |-> getTypeName(T)])
    /\ UNCHANGED <<coreVars, info, last, log, argv, gen>>
    /\ UNCHANGED srvVars

NextReg ==
    \/ \E c \in Classes, e \in RegMembers : AddMember(c, e)
    \/ \E c \in Classes, e \in RegMethods : AddMethod(c, e)
    \/ \E c \in Classes, n \in RegNames : GetMember(c, n)
    \/ \E c \in Classes, n \in RegNames : GetMethod(c, n)
    \/ \E c \in Classes : ListMemberNames(c)
    \/ \E c \in Classes : ListMethodNames(c)

SpecReg == Init /\ [][NextReg]_vars

\* Registration sites with qualified types: a setter void set(P) registered
\* for a parameter type P written const P&, and the tags resolved on the way.
NextTypes ==
    \/ \E T \in TypeInputs : ResolveTypeName(T)
    \/ \E c \in Classes, b \in {T.base : T \in TypeInputs} :
          AddMethod(c, MethodEntry("set", CppType("void"), <<ConstRef(b)>>))

SpecTypes == Init /\ [][NextTypes]_vars

\* The names registered on class c with descriptors of kind k, and the
\* positions of the log where name n was registered with kind k.
Registered(c, k) ==
    {log[c][i].name : i \in {j \in DOMAIN log[c] : log[c][j].kind = k}}

RegisteredAt(c, k, n) ==
    {i \in DOMAIN log[c] : log[c][i].kind = k /\ log[c][i].name = n}

Max(S) == CHOOSE x \in S : \A y \in S : y <= x

\* The elements of a vector, and whether each occurs once.
Elems(v) == {v[i] : i \in DOMAIN v}
NoDuplicates(v) == \A i, j \in DOMAIN v : i # j => v[i] # v[j]

\* C11: after any sequence of registrations, repeated names included,
\* getMemberNames returns exactly the member names registered for the class
\* and getMethodNames exactly the method names, each name once.
C11_NamesAreRegistered ==
    /\ result.op = "getMemberNames"
         => (/\ Elems(result.value) = Registered(result.class, "member")
             /\ NoDuplicates(result.value))
    /\ result.op = "getMethodNames"
         => (/\ Elems(result.value) = Registered(result.class, "method")
             /\ NoDuplicates(result.value))

\* The member names were listed after "age" was registered twice and "name"
\* once.
C11_Witness ==
    /\ result.op = "getMemberNames"
    /\ Len(result.value) = 2
    /\ Cardinality(RegisteredAt(result.class, "member", "age")) = 2
    /\ Cardinality(RegisteredAt(result.class, "member", "name")) = 1

\* What a lookup of name n must return: the descriptor of the latest
\* registration of kind k under n, or nullptr when there was none.
LatestOf(c, k, n) ==
    IF RegisteredAt(c, k, n) = {} THEN nullptr
    ELSE log[c][Max(RegisteredAt(c, k, n))]

LastWins(c) ==
    \A n \in RegNames :
        /\ getMember(info[c], n) = LatestOf(c, "member", n)
        /\ getMethod(info[c], n) = LatestOf(c, "method", n)

\* C12: registering a member or a method under a name already present
\* replaces the previous descriptor: a lookup by name returns the descriptor
\* of the last registration under that name, the registration raises no
\* error, and the descriptors under other names are unchanged.
C12_LastRegistrationWins ==
    [][ \A c \in Classes :
          /\ LastWins(c)'
          /\ log'[c] # log[c] =>
               (/\ result'.op \in {"addMember", "addMethod"}
                /\ result'.status = "ok"
                /\ \A n \in RegNames \ {result'.name} :
                     /\ getMember(info'[c], n) = getMember(info[c], n)
                     /\ getMethod(info'[c], n) = getMethod(info[c], n)
                /\ result'.op = "addMember"
                     => getMethod(info'[c], result'.name)
                          = getMethod(info[c], result'.name)
                /\ result'.op = "addMethod"
                     => getMember(info'[c], result'.name)
                          = getMember(info[c], result'.name)) ]_vars

\* "age" was registered as an int member and then as a string member, with
\* another member registered in between, and is looked up.
C12_Witness ==
    /\ result.op = "getMember"
    /\ result.name = "age"
    /\ result.value = MemberEntry("age", "std::string")
    /\ Len(log[result.class]) = 3
    /\ log[result.class][1] = MemberEntry("age", "int")
    /\ log[result.class][2].name = "name"

\* ------------------------------------------------------------------------
Min(S) == CHOOSE x \in S : \A y \in S : x <= y

\* C13: when an argument list of the right length holds wrong-typed
\* arguments, the arguments are extracted left to right, the call fails with
\* TypeMismatch at the first wrong-typed argument, and the error reported to
\* the caller identifies the index of that argument.
C13_FirstWrongIndexReported ==
    (/\ IsCallOf(last, InfoOf(last))
     /\ Len(last.argTypes) = Arity(last, InfoOf(last))
     /\ WrongTyped(last, InfoOf(last)) # {})
    => (/\ last.status = "TypeMismatch"
        /\ last.at = Min(WrongTyped(last, InfoOf(last)))
        /\ "index" \in DOMAIN last.error
        /\ last.error.index = last.at)

\* C14: a successful callMethod on a method whose return type is void
\* returns the empty dynamic value; on a method with return type R it returns
\* a non-empty dynamic value stored with type R that holds the value the
\* method returned.
C14_ReturnWrapped ==
    [][ (IsCallOf(last', InfoOf(last')) /\ last'.status = "ok")
        => LET mi == InfoOf(last').methods[last'.name]
           IN  IF mi.ReturnType = "void"
               THEN last'.ret = EmptyAny
               ELSE /\ last'.ret # EmptyAny
                    /\ last'.ret.type = mi.ReturnType
                    /\ last'.ret.val
                         = PersonBody(last'.name, fields[last'.obj], << >>).ret
       ]_vars

\* getAge has returned the age of an object whose age had been set.
C14_Witness ==
    /\ last.op = "callMethod"
    /\ last.name = "getAge"
    /\ last.status = "ok"
    /\ last.ret = MakeAny("int", MaxVal)
    /\ MaxVal > 0

\* ============================== registration macros and IntrospectionUtils
\* Counter is registered with the REGISTER_* macros, Meter is the same class
\* registered through TypeRegistrar; k1 and m1 are one instance of each.
MacroClasses == {"Counter", "Meter"}
MacroObjects == {"k1", "m1"}
MacroClassOf(o) == IF o = "k1" THEN "Counter" ELSE "Meter"

\* The MethodInfo a registration form builds; form names the closure that
\* was stored as its invoker.
FormEntry(form, n, R, Ps) ==
    [kind |-> "method", name |-> n, return_type |-> getTypeName(CppType(R)),
     parameter_types |-> [i \in 1..Len(Ps) |-> getTypeName(CppType(Ps[i]))],
     method_ptr |-> n, ReturnType |-> R, Params |-> Ps, form |-> form]

\* Counter::registerMembers followed by Counter::registerMethods.
CounterRegistration ==
    << MemberEntry("count", "int"),
       MemberEntry("step", "int"),
       FormEntry("REGISTER_VOID_METHOD_0", "reset", "void", << >>),
       FormEntry("REGISTER_METHOD_0", "get", "int", << >>),
       FormEntry("REGISTER_VOID_METHOD_1", "set", "void", <<"int">>),
       FormEntry("REGISTER_VOID_METHOD_2", "configure", "void",
                 <<"int", "int">>),
       FormEntry("REGISTER_METHOD_1", "add", "int", <<"int">>) >>

\* Meter::registerIntrospection: reg.member(...).method(...) for the same.
MeterRegistration ==
    << MemberEntry("count", "int"),
       MemberEntry("step", "int"),
       FormEntry("TypeRegistrar::method", "reset", "void", << >>),
       FormEntry("TypeRegistrar::method", "get", "int", << >>),
       FormEntry("TypeRegistrar::method", "set", "void", <<"int">>),
       FormEntry("TypeRegistrar::method", "configure", "void",
                 <<"int", "int">>),
       FormEntry("TypeRegistrar::method", "add", "int", <<"int">>) >>

MacroRegistration(c) ==
    IF c = "Counter" THEN CounterRegistration ELSE MeterRegistration

\* The whole registration callback applied to a catalogue.
RECURSIVE RegisterAll(_, _, _)
RegisterAll(ti, es, i) ==
    IF i > Len(es) THEN ti ELSE RegisterAll(Register(ti, es[i]), es, i + 1)

\* getStaticTypeInfo(): the catalogue, registered on the first call.
TypeInfoOf(c) ==
    IF initialized[c] THEN info[c]
    ELSE RegisterAll(info[c], MacroRegistration(c), 1)

\* The invoker lambdas of the REGISTER_* macros: the parameters are
\* extracted with any_cast from args[0], args[1]; the method is then called
\* with them, except in the non-void branch of REGISTER_METHOD_1, which
\* calls typed_obj->MethodName() with no argument.
MacroInvoker(mi, f, args) ==
    { IF e.status = "ok"
      THEN LET b == Body(mi.method_ptr, f,
                         IF mi.form = "REGISTER_METHOD_1" THEN << >>
                                                          ELSE e.vals)
           IN  [status |-> "ok", fields |-> b.fields, invoked |-> TRUE,
                ret |-> IF mi.ReturnType = "void" THEN EmptyAny
                        ELSE MakeAny(mi.ReturnType, b.ret),
                at |-> 0]
      ELSE [status |-> e.status, fields |-> f, invoked |-> FALSE,
            ret |-> EmptyAny, at |-> e.at]
      : e \in Extract(mi.Params, args, 1) }

\* method->invoker(&obj, args): the closure the registration form stored.
invoker(mi, f, args) ==
    IF mi.form = "TypeRegistrar::method" THEN Invoker(mi, f, args)
                                         ELSE MacroInvoker(mi, f, args)

\* IntrospectionUtils::setMemberValue: the setter of a known member; for an
\* unknown one a line is printed and the function returns normally.
UtilsSetMemberValue(ti, f, n, value) ==
    IF hasMemberEntry(ti, n)
    THEN Setter(ti.members[n], f, value)
    ELSE [status |-> "ok", fields |-> f]

\* IntrospectionUtils::callMethod: the invoker of a known method; for an
\* unknown one a line is printed and std::any() is returned.
UtilsCallMethod(ti, f, n, args) ==
    IF hasMethodEntry(ti, n)
    THEN invoker(ti.methods[n], f, args)
    ELSE {[status |-> "ok", fields |-> f, invoked |-> FALSE,
           ret |-> EmptyAny, at |-> 0]}

\* The longest parameter list a registration macro supports.
MacroArity == 2

\* Names and values passed to IntrospectionUtils.
MacroNames == {"count", "step"} \cup CounterMethodNames \cup {"weight"}
MacroValues == {MakeAny(T, v) : T \in {"int", "double"}, v \in Vals}
MacroArgLists == UNION {[1..n -> MacroValues] : n \in 0..MacroArity}

InitMacro ==
    /\ fields = [o \in MacroObjects |-> CounterInit]
    /\ info = [c \in MacroClasses |-> EmptyInfo(c)]
    /\ initialized = [c \in MacroClasses |-> FALSE]
    /\ pc = [t \in Threads |-> "idle"]
    /\ cur = [t \in Threads |-> "none"]
    /\ regStep = [t \in Threads |-> 0]
    /\ regRuns = [c \in MacroClasses |-> 0]
    /\ last = NoCall
    /\ ub = FALSE
    /\ log = [c \in MacroClasses |-> << >>]
    /\ result = NoResult
    /\ argv = << >>
    /\ gen = NoGenerator
    /\ stack = << >>
    /\ srv = NoServer

\* obj.getTypeInfo() at the start of every IntrospectionUtils function.
GetTypeInfo(c) ==
    /\ info' = [info EXCEPT ![c] = TypeInfoOf(c)]
    /\ initialized' = [initialized EXCEPT ![c] = TRUE]
    /\ regRuns' = [regRuns EXCEPT ![c] = IF initialized[c] THEN @ ELSE @ + 1]
    /\ UNCHANGED <<pc, cur, regStep, log, result, gen>>
    /\ UNCHANGED srvVars

MacroSetMemberValue(o, n, value) ==
    /\ ~ub
    /\ GetTypeInfo(MacroClassOf(o))
    /\ LET r == UtilsSetMemberValue(TypeInfoOf(MacroClassOf(o)), fields[o],
                                    n, value)
       IN  /\ fields' = [fields EXCEPT ![o] = r.fields]
           /\ last' = Call("setMemberValue", o, n, << >>, value,
                           r.status, EmptyAny, {}, FALSE)
    /\ argv' = << >>
    /\ UNCHANGED ub

MacroCallMethod(o, n, args) ==
    /\ ~ub
    /\ GetTypeInfo(MacroClassOf(o))
    /\ \E r \in UtilsCallMethod(TypeInfoOf(MacroClassOf(o)), fields[o],
                                n, args) :
          /\ fields' = [fields EXCEPT ![o] = r.fields]
          /\ last' = [Call("callMethod", o, n, TypesOf(args), EmptyAny,
                           r.status, r.ret, {}, r.invoked)
                         EXCEPT !.at = r.at]
          /\ ub' = (r.status = "UB")
    /\ argv' = args

NextMacro ==
    \/ \E o \in MacroObjects, n \in MacroNames, v \in MacroValues :
          MacroSetMemberValue(o, n, v)
    \/ \E o \in MacroObjects, n \in MacroNames, args \in MacroArgLists :
          MacroCallMethod(o, n, args)

SpecMacro == InitMacro /\ [][NextMacro]_vars

\* The raw values of an argument vector.
ValuesOf(args) == [i \in 1..Len(args) |-> args[i].val]

\* C20: a successful callMethod with n correctly typed arguments runs the
\* bound method once on the receiver with args[i] as its i-th parameter and
\* returns the result of that run, for every registration form and for void
\* and non-void return types.
C20_ArgumentsPassed ==
    [][ (/\ last'.op = "callMethod"
         /\ hasMethodEntry(info'[MacroClassOf(last'.obj)], last'.name)
         /\ last'.status = "ok"
         /\ last'.argTypes
              = info'[MacroClassOf(last'.obj)].methods[last'.name].Params)
        => LET mi == info'[MacroClassOf(last'.obj)].methods[last'.name]
               b == Body(last'.name, fields[last'.obj], ValuesOf(argv'))
           IN  /\ last'.invoked
               /\ fields'[last'.obj] = b.fields
               /\ \A o \in MacroObjects \ {last'.obj} : fields'[o] = fields[o]
               /\ last'.ret = IF mi.ReturnType = "void" THEN EmptyAny
                              ELSE MakeAny(mi.ReturnType, b.ret) ]_vars

\* What is wrong with the request of operation l on catalogue ti, if
\* anything: the failure its caller must be told of.
FailureOf(l, ti) ==
    IF l.op = "setMemberValue"
    THEN IF ~hasMemberEntry(ti, l.name) THEN "NotFound"
         ELSE IF l.arg.type # ti.members[l.name].MemberType
              THEN "TypeMismatch" ELSE "none"
    ELSE IF l.op = "callMethod"
    THEN IF ~hasMethodEntry(ti, l.name) THEN "NotFound"
         ELSE IF Len(l.argTypes) # Arity(l, ti) THEN "ArityMismatch"
         ELSE IF WrongTyped(l, ti) # {} THEN "TypeMismatch" ELSE "none"
    ELSE "none"

\* C18: every failure of a set or a call by name through IntrospectionUtils
\* (NotFound, TypeMismatch, ArityMismatch) is reported to the caller as an
\* error: none is turned into a normal return with an empty value or into a
\* silent no-op.
C18_FailuresReported ==
    (last.op \in {"setMemberValue", "callMethod"}
     /\ FailureOf(last, info[MacroClassOf(last.obj)]) # "none")
    => last.status # "ok"

\* =================================================== binding generators
\* The classes of src/examples/scripting/nodejs/demo.h, which the generators
\* bind: their registration callbacks.
DemoClasses == {"Person", "Vehicle"}

DemoPersonRegistration ==
    << MemberEntry("name", "std::string"),
       MemberEntry("age", "int"),
       MemberEntry("height", "double"),
       MemberEntry("isActive", "bool"),
       MethodEntry("getName", CppType("std::string"), << >>),
       MethodEntry("setName", CppType("void"), <<ConstRef("std::string")>>),
       MethodEntry("getAge", CppType("int"), << >>),
       MethodEntry("setAge", CppType("void"), <<CppType("int")>>),
       MethodEntry("getHeight", CppType("double"), << >>),
       MethodEntry("setHeight", CppType("void"), <<CppType("double")>>),
       MethodEntry("getIsActive", CppType("bool"), << >>),
       MethodEntry("setIsActive", CppType("void"), <<CppType("bool")>>),
       MethodEntry("introduce", CppType("void"), << >>),
       MethodEntry("celebrateBirthday", CppType("void"), << >>),
       MethodEntry("getDescription", CppType("std::string"), << >>) >>

DemoVehicleRegistration ==
    << MemberEntry("brand", "std::string"),
       MemberEntry("model", "std::string"),
       MemberEntry("year", "int"),
       MemberEntry("mileage", "double"),
       MemberEntry("isRunning", "bool"),
       MethodEntry("getBrand", CppType("std::string"), << >>),
       MethodEntry("setBrand", CppType("void"), <<ConstRef("std::string")>>),
       MethodEntry("getModel", CppType("std::string"), << >>),
       MethodEntry("setModel", CppType("void"), <<ConstRef("std::string")>>),
       MethodEntry("getYear", CppType("int"), << >>),
       MethodEntry("setYear", CppType("void"), <<CppType("int")>>),
       MethodEntry("getMileage", CppType("double"), << >>),
       MethodEntry("setMileage", CppType("void"), <<CppType("double")>>),
       MethodEntry("getIsRunning", CppType("bool"), << >>),
       MethodEntry("start", CppType("void"), << >>),
       MethodEntry("stop", CppType("void"), << >>),
       MethodEntry("drive", CppType("void"), <<CppType("double")>>),
       MethodEntry("getInfo", CppType("std::string"), << >>) >>

\* T::getStaticTypeInfo() of a demo class: its registered catalogue.
DemoTypeInfo(T) ==
    RegisterAll(EmptyInfo(T),
                IF T = "Person" THEN DemoPersonRegistration
                                ELSE DemoVehicleRegistration, 1)

\* The characters of the names the demo classes register (a std::string is
\* a sequence of characters).
Chars(s) ==
    CASE s = "name" -> <<"n", "a", "m", "e">>
      [] s = "age" -> <<"a", "g", "e">>
      [] s = "height" -> <<"h", "e", "i", "g", "h", "t">>
      [] s = "isActive" -> <<"i", "s", "A", "c", "t", "i", "v", "e">>
      [] s = "getName" -> <<"g", "e", "t", "N", "a", "m", "e">>
      [] s = "setName" -> <<"s", "e", "t", "N", "a", "m", "e">>
      [] s = "getAge" -> <<"g", "e", "t", "A", "g", "e">>
      [] s = "setAge" -> <<"s", "e", "t", "A", "g", "e">>
      [] s = "getHeight" -> <<"g", "e", "t", "H", "e", "i", "g", "h", "t">>
      [] s = "setHeight" -> <<"s", "e", "t", "H", "e", "i", "g", "h", "t">>
      [] s = "getIsActive" ->
           <<"g", "e", "t", "I", "s", "A", "c", "t", "i", "v", "e">>
      [] s = "setIsActive" ->
           <<"s", "e", "t", "I", "s", "A", "c", "t", "i", "v", "e">>
      [] s = "introduce" -> <<"i", "n", "t", "r", "o", "d", "u", "c", "e">>
      [] s = "celebrateBirthday" ->
           <<"c", "e", "l", "e", "b", "r", "a", "t", "e", "B", "i", "r", "t", "h", "d", "a", "y">>
      [] s = "getDescription" ->
           <<"g", "e", "t", "D", "e", "s", "c", "r", "i", "p", "t", "i", "o", "n">>
      [] s = "brand" -> <<"b", "r", "a", "n", "d">>
      [] s = "model" -> <<"m", "o", "d", "e", "l">>
      [] s = "year" -> <<"y", "e", "a", "r">>
      [] s = "mileage" -> <<"m", "i", "l", "e", "a", "g", "e">>
      [] s = "isRunning" -> <<"i", "s", "R", "u", "n", "n", "i", "n", "g">>
      [] s = "getBrand" -> <<"g", "e", "t", "B", "r", "a", "n", "d">>
      [] s = "setBrand" -> <<"s", "e", "t", "B", "r", "a", "n", "d">>
      [] s = "getModel" -> <<"g", "e", "t", "M", "o", "d", "e", "l">>
      [] s = "setModel" -> <<"s", "e", "t", "M", "o", "d", "e", "l">>
      [] s = "getYear" -> <<"g", "e", "t", "Y", "e", "a", "r">>
      [] s = "setYear" -> <<"s", "e", "t", "Y", "e", "a", "r">>
      [] s = "getMileage" ->
           <<"g", "e", "t", "M", "i", "l", "e", "a", "g", "e">>
      [] s = "setMileage" ->
           <<"s", "e", "t", "M", "i", "l", "e", "a", "g", "e">>
      [] s = "getIsRunning" ->
           <<"g", "e", "t", "I", "s", "R", "u", "n", "n", "i", "n", "g">>
      [] s = "start" -> <<"s", "t", "a", "r", "t">>
      [] s = "stop" -> <<"s", "t", "o", "p">>
      [] s = "drive" -> <<"d", "r", "i", "v", "e">>
      [] s = "getInfo" -> <<"g", "e", "t", "I", "n", "f", "o">>

\* std::tolower on the characters that occur in those names.
tolower(c) ==
    CASE c = "A" -> "a"
      [] c = "B" -> "b"
      [] c = "D" -> "d"
      [] c = "H" -> "h"
      [] c = "I" -> "i"
      [] c = "M" -> "m"
      [] c = "N" -> "n"
      [] c = "R" -> "r"
      [] c = "Y" -> "y"
      [] OTHER -> c

\* std::string::starts_with and std::string::substr(pos).
starts_with(s, prefix) ==
    Len(s) >= Len(prefix) /\ SubSeq(s, 1, Len(prefix)) = prefix

substr(s, pos) == SubSeq(s, pos + 1, Len(s))

\* potential_member = method_name.substr(n);
\* potential_member[0] = std::tolower(potential_member[0]);
\* type_info.getMember(potential_member) != nullptr
PotentialMemberExists(s, n, type_info) ==
    LET rest == substr(s, n)
        potential_member == <<tolower(rest[1])>> \o SubSeq(rest, 2, Len(rest))
    IN  \E m \in DOMAIN type_info.members : Chars(m) = potential_member

\* ObjectWrapper<T>::IsSimpleGetterSetter of the js generator.
IsSimpleGetterSetter(method_name, type_info) ==
    LET s == Chars(method_name)
    IN  \/ /\ starts_with(s, <<"g", "e", "t">>) /\ Len(s) > 3
           /\ PotentialMemberExists(s, 3, type_info)
        \/ /\ starts_with(s, <<"s", "e", "t">>) /\ Len(s) > 3
           /\ PotentialMemberExists(s, 3, type_info)
        \/ /\ starts_with(s, <<"i", "s">>) /\ Len(s) > 2
           /\ PotentialMemberExists(s, 2, type_info)

\* is_getter_setter_method of the nodejs and the python generators.
is_getter_setter_method(method_name) ==
    LET s == Chars(method_name)
    IN  \/ starts_with(s, <<"g", "e", "t">>)
        \/ starts_with(s, <<"s", "e", "t">>)
        \/ starts_with(s, <<"i", "s">>)

\* The three generators: src/examples/scripting/js, .../nodejs and
\* pyBindGenerator.h.
Generators == {"js", "nodejs", "python"}

\* SetupBindings (js) / bind_methods (nodejs, python): the registered methods
\* that are bound as callable methods of the script object.
bind_methods(g, type_info) ==
    {m \in getMethodNames(type_info) :
        IF g = "js" THEN ~IsSimpleGetterSetter(m, type_info)
                    ELSE ~is_getter_setter_method(m)}

\* The exposed class name bind_class may be given: "" takes the name of the
\* class from its catalogue.
ClassNameInputs == {""} \cup DemoClasses

\* JavascriptBindingGenerator(env, exports) / AutoBindingGenerator(m): no
\* class bound; the converter registry of the js and nodejs generators holds
\* the container converters registered by the constructor.
NewGenerator(g) ==
    [kind |-> g, bound_classes |-> {}, exports |-> EmptyMap,
     converters |->
        IF g = "python" THEN EmptyMap
        ELSE [t \in {"vector<int>", "vector<double>", "vector<string>"}
                |-> "container"]]

InitGen ==
    /\ fields = [o \in Objects |-> PersonInit]
    /\ info = [c \in DemoClasses |-> DemoTypeInfo(c)]
    /\ initialized = [c \in DemoClasses |-> TRUE]
    /\ pc = [t \in Threads |-> "idle"]
    /\ cur = [t \in Threads |-> "none"]
    /\ regStep = [t \in Threads |-> 0]
    /\ regRuns = [c \in DemoClasses |-> 1]
    /\ last = NoCall
    /\ ub = FALSE
    /\ log = [c \in DemoClasses |-> << >>]
    /\ result = NoResult
    /\ argv = << >>
    /\ gen \in {NewGenerator(g) : g \in Generators}
    /\ stack = << >>
    /\ srv = NoServer

\* Variant of bind_class that records the name before it looks for it.
bind_classInsertsFirst(G, T, class_name) ==
    LET type_info == info[T]
        final_name == IF class_name = "" THEN type_info.class_name
                                         ELSE class_name
    IN  IF final_name \in G.bound_classes
        THEN [status |-> "DuplicateRegistration",
              gen |-> [G EXCEPT !.exports = MapPut(@, final_name, T)]]
        ELSE [status |-> "ok",
              gen |-> [G EXCEPT !.bound_classes = @ \cup {final_name},
                                !.exports = MapPut(@, final_name, T)]]

\* bind_class<T>(class_name): the std::runtime_error "already bound" is
\* thrown before bound_classes and exports are touched; otherwise the name is
\* inserted and the constructor of T exported under it.
bind_class(G, T, class_name) ==
    LET type_info == info[T]
        final_name == IF class_name = "" THEN type_info.class_name
                                         ELSE class_name
    IN  IF final_name \in G.bound_classes
        THEN [status |-> "DuplicateRegistration", gen |-> G]
        ELSE [status |-> "ok",
              gen |-> [G EXCEPT !.bound_classes = @ \cup {final_name},
                                !.exports = MapPut(@, final_name, T)]]

BindClass(T, class_name) ==
    /\ LET r == bind_class(gen, T, class_name)
       IN  /\ gen' = r.gen
           /\ result' = Result("bind_class", T, class_name, r.status, << >>)
    /\ UNCHANGED <<coreVars, info, last, log, argv>>
    /\ UNCHANGED srvVars

\* An object of a bound class is created in the script (for the python
\* generator: the class is bound): its callable methods are set up.
BindMethods(name) ==
    /\ name \in DOMAIN gen.exports
    /\ result' = Result("bind_methods", gen.exports[name], name, "ok",
                        bind_methods(gen.kind, info[gen.exports[name]]))
    /\ UNCHANGED <<coreVars, info, last, log, argv, gen>>
    /\ UNCHANGED srvVars

\* The member a method named get<X>, set<X> or is<X> stands for, if the
\* catalogue holds a member named X with its first letter in lower case.
AccessorOf(m, type_info) ==
    {mem \in DOMAIN type_info.members :
        \E n \in {2, 3} :
            /\ Len(Chars(m)) > n
            /\ SubSeq(Chars(m), 1, n)
                 \in {<<"g", "e", "t">>, <<"s", "e", "t">>, <<"i", "s">>}
            /\ Len(Chars(mem)) = Len(Chars(m)) - n
            /\ tolower(Chars(m)[n + 1]) = Chars(mem)[1]
            /\ \A i \in 2..Len(Chars(mem)) : Chars(mem)[i] = Chars(m)[n + i]}

\* C15: in every generator a registered method named get<X>, set<X> or is<X>
\* is left out of the exposed methods if and only if the class has a member
\* named X with a lower-case first letter; getDescription and getInfo, which
\* stand for no member, are exposed.
C15_AccessorsLeftOut ==
    result.op = "bind_methods"
    => \A m \in getMethodNames(info[result.class]) :
          (m \notin result.value) <=> (AccessorOf(m, info[result.class]) # {})

ConvTypes == {"int", "double", "std::string", "bool", "Person",
              "std::vector<int>", "std::vector<double>",
              "std::vector<std::string>"}

\* The tags under which custom converters are registered at run time.
CustomTags == {"int", "6Person"}

\* The tags of the built-in branch of the conversion functions.
BuiltinTags == {"string", "int", "double", "float", "bool"}

\* env.Undefined()
Undefined == [kind |-> "undefined", val |-> 0]

\* The script value of a C++ value of type b.
JsOf(b, v) ==
    CASE b \in {"int", "double", "float"} -> [kind |-> "number", val |-> v]
      [] b = "std::string" -> [kind |-> "string", val |-> v]
      [] b = "bool" -> [kind |-> "boolean", val |-> v]
      [] b \in {"std::vector<int>", "std::vector<double>",
                "std::vector<std::string>"} -> [kind |-> "array", val |-> v]
      [] OTHER -> [kind |-> "object", val |-> v]

\* The C++ type a built-in tag is cast to.
BuiltinType(type_name) ==
    IF type_name = "string" THEN "std::string" ELSE type_name

\* register_converter / register_type_converter: both maps are assigned with
\* operator[], so a converter registered later replaces the earlier one.
register_type_converter(G, type_name) ==
    [G EXCEPT !.converters = MapPut(@, type_name, "custom")]

\* convert_to_js (js) and convert_any_to_js (nodejs): an empty value or the
\* tag void gives undefined; a registered converter is looked up first; then
\* the built-in branch casts the value; any other tag gives undefined.  A
\* failed cast in the built-in branch is swallowed by the js generator and
\* raised as a TypeError by the nodejs generator.
convert_to_js(G, value, type_name) ==
    IF value = EmptyAny \/ type_name = "void"
    THEN [status |-> "ok", by |-> "void", out |-> Undefined]
    ELSE IF type_name \in DOMAIN G.converters
    THEN [status |-> "ok", by |-> G.converters[type_name],
          out |-> JsOf(value.type, value.val)]
    ELSE IF type_name \in BuiltinTags
    THEN LET c == any_cast(BuiltinType(type_name), value)
         IN  IF c.ok
             THEN [status |-> "ok", by |-> "builtin",
                   out |-> JsOf(value.type, c.val)]
             ELSE IF G.kind = "js"
             THEN [status |-> "ok", by |-> "none", out |-> Undefined]
             ELSE [status |-> "TypeMismatch", by |-> "none",
                   out |-> Undefined]
    ELSE [status |-> "ok", by |-> "none", out |-> Undefined]

\* convert_to_cpp (js) and convert_js_to_any (nodejs): a registered converter
\* is looked up first; then the built-in branch; any other tag throws
\* std::runtime_error "Unsupported type".
convert_to_cpp(G, b, js_value, type_name) ==
    IF type_name \in DOMAIN G.converters
    THEN [status |-> "ok", by |-> G.converters[type_name],
          out |-> MakeAny(b, js_value.val)]
    ELSE IF type_name \in BuiltinTags
    THEN [status |-> "ok", by |-> "builtin",
          out |-> MakeAny(BuiltinType(type_name), js_value.val)]
    ELSE [status |-> "UnsupportedType", by |-> "none", out |-> EmptyAny]

RegisterTypeConverter(type_name) ==
    /\ gen.kind \in {"js", "nodejs"}
    /\ gen' = register_type_converter(gen, type_name)
    /\ result' = Result("register_type_converter", "none", type_name, "ok",
                        << >>)
    /\ UNCHANGED <<coreVars, info, last, log, argv>>
    /\ UNCHANGED srvVars

\* A member of type b is read, or a method returning b has returned: the
\* value is converted under the tag the catalogue holds for b.  The class
\* field of the result holds b.
ConvertToJs(b, v) ==
    /\ gen.kind \in {"js", "nodejs"}
    /\ LET r == convert_to_js(gen, MakeAny(b, v), getTypeName(CppType(b)))
       IN  result' = Result("convert_to_js", b, getTypeName(CppType(b)),
                            r.status, r)
    /\ UNCHANGED <<coreVars, info, last, log, argv, gen>>
    /\ UNCHANGED srvVars

\* A member of type b is written, or a parameter of type b is passed, with
\* the script value of a b.
ConvertToCpp(b, v) ==
    /\ gen.kind \in {"js", "nodejs"}
    /\ LET r == convert_to_cpp(gen, b, JsOf(b, v), getTypeName(CppType(b)))
       IN  result' = Result("convert_to_cpp", b, getTypeName(CppType(b)),
                            r.status, r)
    /\ UNCHANGED <<coreVars, info, last, log, argv, gen>>
    /\ UNCHANGED srvVars

NextGen ==
    \/ \E T \in DemoClasses, n \in ClassNameInputs : BindClass(T, n)
    \/ \E n \in DemoClasses : BindMethods(n)
    \/ \E t \in CustomTags : RegisterTypeConverter(t)
    \/ \E b \in ConvTypes, v \in Vals : ConvertToJs(b, v)
    \/ \E b \in ConvTypes, v \in Vals : ConvertToCpp(b, v)

SpecGen == InitGen /\ [][NextGen]_vars

Conversions == {"convert_to_js", "convert_to_cpp"}

\* C16: a conversion in either direction uses the converter registered for
\* the tag if there is one (also for a built-in tag such as int), else the
\* built-in conversion of the tag, and fails with UnsupportedType when the tag
\* has neither: no value is substituted for a tag with no conversion path.
C16_LookupOrder ==
    [][ result'.op \in Conversions
        => LET type_name == result'.name
               r == result'.value
           IN  IF type_name \in DOMAIN gen.converters
               THEN r.by = gen.converters[type_name] /\ r.status = "ok"
               ELSE IF type_name \in BuiltinTags
               THEN r.by = "builtin" /\ r.status = "ok"
               ELSE r.status = "UnsupportedType" ]_vars

\* The tag the built-in container converters are registered under.
VectorTag(b) ==
    CASE b = "std::vector<int>" -> "vector<int>"
      [] b = "std::vector<double>" -> "vector<double>"
      [] b = "std::vector<std::string>" -> "vector<string>"
      [] OTHER -> "none"

\* C19: a value whose type is a vector of int, of double or of string
\* resolves to the tag vector<int>, vector<double> or vector<string>, the
\* generator holds a container converter under that tag, and the conversion
\* in either direction does not fail with UnsupportedType.
C19_VectorTagsResolve ==
    (result.op \in Conversions /\ VectorTag(result.class) # "none")
    => /\ result.name = VectorTag(result.class)
       /\ result.name \in DOMAIN gen.converters
       /\ result.status # "UnsupportedType"

\* ============================== dynamic utilities of the binding generators
\* convert_python_to_any of the python generator: the built-in branch, any
\* other tag raises py::type_error "Unsupported type conversion".
convert_python_to_any(py_value, type_name) ==
    IF type_name \in BuiltinTags
    THEN [status |-> "ok", by |-> "builtin",
          out |-> MakeAny(BuiltinType(type_name), py_value.val)]
    ELSE [status |-> "UnsupportedType", by |-> "none", out |-> EmptyAny]

\* convert_any_to_python: None for an empty value or the tag void, the
\* built-in branch, and py::cast(value) of the std::any itself for any other
\* tag, for which pybind11 has no caster and raises.
convert_any_to_python(value, type_name) ==
    IF value = EmptyAny \/ type_name = "void"
    THEN [status |-> "ok", by |-> "void", out |-> Undefined]
    ELSE IF type_name \in BuiltinTags
    THEN LET c == any_cast(BuiltinType(type_name), value)
         IN  IF c.ok THEN [status |-> "ok", by |-> "builtin",
                           out |-> JsOf(value.type, c.val)]
                     ELSE [status |-> "TypeMismatch", by |-> "none",
                           out |-> Undefined]
    ELSE [status |-> "UnsupportedType", by |-> "none", out |-> Undefined]

\* The conversion of one script argument / of the result by generator G.
ArgToCpp(G, value, type_name) ==
    IF G.kind = "python" THEN convert_python_to_any(value, type_name)
    ELSE convert_to_cpp(G, BuiltinType(type_name), value, type_name)

ResultToScript(G, value, type_name) ==
    IF G.kind = "python" THEN convert_any_to_python(value, type_name)
    ELSE convert_to_js(G, value, type_name)

\* The outcome of a dynamic utility that did not reach the core operation.
NotForwarded(st, f) ==
    [status |-> st, fields |-> f, forwarded |-> FALSE, cpp_args |-> << >>,
     out |-> Undefined]

\* callMethod (js, nodejs) / call_method (python) installed on a bound object:
\* the method is looked up (an unknown name gives undefined in the js
\* generator and an error in the other two); the script arguments are
\* converted one by one while i < parameter_types.size(), the rest is left
\* out; the converted list goes to Introspectable::callMethod and the result
\* is converted back.
DynamicCallMethod(G, ti, f, name, args) ==
    LET method == getMethod(ti, name)
    IN  IF method = nullptr
        THEN {NotForwarded(IF G.kind = "js" THEN "ok" ELSE "NotFound", f)}
        ELSE LET k == IF Len(args) < Len(method.parameter_types)
                      THEN Len(args) ELSE Len(method.parameter_types)
                 conv == [i \in 1..k |->
                            ArgToCpp(G, args[i], method.parameter_types[i])]
                 cpp_args == [i \in 1..k |-> conv[i].out]
                 failed == {i \in 1..k : conv[i].status # "ok"}
             IN  IF failed # {}
                 THEN {NotForwarded(conv[Min(failed)].status, f)}
                 ELSE {LET back == ResultToScript(G, r.ret, method.return_type)
                       IN  [status |-> IF r.status = "ok" THEN back.status
                                                          ELSE r.status,
                            fields |-> r.fields, forwarded |-> TRUE,
                            cpp_args |-> cpp_args, out |-> back.out]
                       : r \in callMethod(ti, f, name, cpp_args)}

\* setMemberValue / set_member_value installed on a bound object: an unknown
\* member is passed over in silence by the js generator and is an error in
\* the other two.
DynamicSetMemberValue(G, ti, f, name, value) ==
    LET member == getMember(ti, name)
    IN  IF member = nullptr
        THEN NotForwarded(IF G.kind = "js" THEN "ok" ELSE "NotFound", f)
        ELSE LET c == ArgToCpp(G, value, member.type_name)
             IN  IF c.status # "ok" THEN NotForwarded(c.status, f)
                 ELSE LET r == setMemberValue(ti, f, name, c.out)
                      IN  [status |-> r.status, fields |-> r.fields,
                           forwarded |-> TRUE, cpp_args |-> <<c.out>>,
                           out |-> Undefined]

\* The names and the script argument lists the utilities are called with.
DynNames == {"getAge", "setAge", "setHeight", "age", "height", "weight"}
DynArity == 2
ScriptValues == {JsOf("int", v) : v \in Vals}
ScriptArgLists == UNION {[1..n -> ScriptValues] : n \in 0..DynArity}

\* An object of demo class Person has been created in the script of each
\* generator: Person is bound.
InitDyn ==
    /\ fields = [o \in Objects |-> PersonInit]
    /\ info = [c \in DemoClasses |-> DemoTypeInfo(c)]
    /\ initialized = [c \in DemoClasses |-> TRUE]
    /\ pc = [t \in Threads |-> "idle"]
    /\ cur = [t \in Threads |-> "none"]
    /\ regStep = [t \in Threads |-> 0]
    /\ regRuns = [c \in DemoClasses |-> 1]
    /\ last = NoCall
    /\ ub = FALSE
    /\ log = [c \in DemoClasses |-> << >>]
    /\ result = NoResult
    /\ argv = << >>
    /\ gen \in {bind_class(NewGenerator(g), "Person", "").gen
                 : g \in Generators}
    /\ stack = << >>
    /\ srv = NoServer

ScriptCallMethod(o, name, args) ==
    /\ ~ub
    /\ \E r \in DynamicCallMethod(gen, info["Person"], fields[o], name, args) :
          /\ fields' = [fields EXCEPT ![o] = r.fields]
          /\ ub' = (r.status = "UB")
          /\ argv' = r.cpp_args
          /\ result' = Result("callMethod", "Person", name, r.status,
                              [supplied |-> Len(args),
                               forwarded |-> r.forwarded, out |-> r.out])
    /\ UNCHANGED <<info, initialized, pc, cur, regStep, regRuns, last, log,
                   gen>>
    /\ UNCHANGED srvVars

ScriptSetMemberValue(o, name, value) ==
    /\ ~ub
    /\ LET r == DynamicSetMemberValue(gen, info["Person"], fields[o], name,
                                      value)
       IN  /\ fields' = [fields EXCEPT ![o] = r.fields]
           /\ argv' = r.cpp_args
           /\ result' = Result("setMemberValue", "Person", name, r.status,
                               [supplied |-> 1, forwarded |-> r.forwarded,
                                out |-> r.out])
    /\ UNCHANGED <<info, initialized, pc, cur, regStep, regRuns, last, log,
                   gen, ub>>
    /\ UNCHANGED srvVars

NextDyn ==
    \/ \E o \in Objects, n \in DynNames, args \in ScriptArgLists :
          ScriptCallMethod(o, n, args)
    \/ \E o \in Objects, n \in DynNames, v \in ScriptValues :
          ScriptSetMemberValue(o, n, v)

SpecDyn == InitDyn /\ [][NextDyn]_vars

\* C21: a dynamic call by name whose script argument list has another length
\* than the registered parameter count of the method fails: the call is not
\* forwarded to the core invoker, neither with the surplus arguments dropped
\* nor with the short list.
C21_CountMismatchFails ==
    (/\ result.op = "callMethod"
     /\ hasMethodEntry(info[result.class], result.name)
     /\ result.value.supplied
          # Len(info[result.class].methods[result.name].parameter_types))
    => /\ ~result.value.forwarded
       /\ result.status \notin {"ok", "UB"}

\* C23: the tag resolved for a built-in type does not depend on its const or
\* reference qualifiers: T, const T, T& and const T& all resolve to the tag
\* of T, and a parameter declared const int& is recorded in parameter_types
\* under "int" as const std::string& is recorded under "string".
C23_QualifiersIgnored ==
    /\ result.op = "getTypeName"
       => result.value.tag = getTypeName(CppType(result.value.T.base))
    /\ \A c \in Classes : \A n \in DOMAIN info[c].methods :
          LET mi == info[c].methods[n]
          IN  \A i \in DOMAIN mi.Params :
                 mi.parameter_types[i] = getTypeName(CppType(mi.Params[i]))

\* ============================ sequential use of several classes and objects
\* Two objects of demo class Person and one of Vehicle.
SeqObjects == {"p1", "p2", "v1"}
SeqClassOf(o) == IF o = "v1" THEN "Vehicle" ELSE "Person"

\* Person() : name(""), age(0), height(0.0), isActive(true)
DemoPersonInit == [name |-> 0, age |-> 0, height |-> 0, isActive |-> 1]

\* Vehicle() : brand(""), model(""), year(0), mileage(0.0), isRunning(false)
DemoVehicleInit ==
    [brand |-> 0, model |-> 0, year |-> 0, mileage |-> 0, isRunning |-> 0]

\* T::registerIntrospection of a demo class.
DemoRegistration(c) ==
    IF c = "Person" THEN DemoPersonRegistration ELSE DemoVehicleRegistration

\* How many registration passes of one class may be started before no
\* further one ends in an exception, the last registration call that may
\* throw, and how deep accessor calls may nest.
MaxPasses == 2
MaxThrowAt == 2
MaxDepth == 2

InitSeq ==
    /\ fields = [o \in SeqObjects |->
                   IF SeqClassOf(o) = "Person" THEN DemoPersonInit
                                               ELSE DemoVehicleInit]
    /\ info = [c \in DemoClasses |-> EmptyInfo(c)]
    /\ initialized = [c \in DemoClasses |-> FALSE]
    /\ pc = [t \in Threads |-> "idle"]
    /\ cur = [t \in Threads |-> "none"]
    /\ regStep = [t \in Threads |-> 0]
    /\ regRuns = [c \in DemoClasses |-> 0]
    /\ last = NoCall
    /\ ub = FALSE
    /\ log = [c \in DemoClasses |-> << >>]
    /\ result = NoResult
    /\ argv = << >>
    /\ gen = NoGenerator
    /\ stack = << >>
    /\ srv = NoServer

\* The innermost accessor call in progress.
Top == stack[Len(stack)]
InCallback == stack # << >> /\ Top.step < Len(DemoRegistration(Top.class))

\* getStaticTypeInfo() of class c is entered: with the flag set it returns
\* the catalogue at once, else the registration callback is started.
Enter(c) ==
    IF initialized[c]
    THEN /\ result' = Result("getStaticTypeInfo", c, "", "ok", info[c])
         /\ UNCHANGED <<stack, regRuns>>
    ELSE /\ stack' = Append(stack, [class |-> c, step |-> 0])
         /\ regRuns' = [regRuns EXCEPT ![c] = @ + 1]
         /\ UNCHANGED result

\* A caller outside any callback calls the accessor of c (directly, or
\* through getTypeInfo() of an instance).
EnterAccessor(c) ==
    /\ stack = << >>
    /\ Enter(c)
    /\ UNCHANGED <<fields, info, initialized, pc, cur, regStep, last, ub,
                   log, argv, gen, srv>>

\* Variant of the registration step in which all classes share one static
\* catalogue.
RegisterEntrySharedStatic ==
    /\ InCallback
    /\ info' = [c \in DOMAIN info |->
                  Register(info[c], DemoRegistration(Top.class)[Top.step + 1])]
    /\ stack' = [stack EXCEPT ![Len(stack)].step = @ + 1]
    /\ UNCHANGED <<fields, initialized, pc, cur, regStep, regRuns, last, ub,
                   log, result, argv, gen, srv>>

\* The callback makes its next reg.member / reg.method call.
RegisterEntry ==
    /\ InCallback
    /\ info' = [info EXCEPT ![Top.class] =
                  Register(@, DemoRegistration(Top.class)[Top.step + 1])]
    /\ stack' = [stack EXCEPT ![Len(stack)].step = @ + 1]
    /\ UNCHANGED <<fields, initialized, pc, cur, regStep, regRuns, last, ub,
                   log, result, argv, gen, srv>>

\* Variant of the exception path that marks the class initialised while the
\* exception leaves the accessor.
RegistrationThrowsSetsFlag ==
    /\ InCallback
    /\ Top.step < MaxThrowAt
    /\ regRuns[Top.class] < MaxPasses
    /\ stack' = << >>
    /\ initialized' = [initialized EXCEPT ![Top.class] = TRUE]
    /\ last' = Call("getStaticTypeInfo", "none", Top.class, << >>, EmptyAny,
                    "exception", EmptyAny, {}, FALSE)
    /\ UNCHANGED <<fields, info, pc, cur, regStep, regRuns, ub,
                   log, result, argv, gen, srv>>

\* The callback throws (a failed allocation in reg.member, say): the
\* exception leaves every accessor call in progress; the entries added so
\* far stay in the static catalogue and the flag stays false.
RegistrationThrows ==
    /\ InCallback
    /\ Top.step < MaxThrowAt
    /\ regRuns[Top.class] < MaxPasses
    /\ stack' = << >>
    /\ last' = Call("getStaticTypeInfo", "none", Top.class, << >>, EmptyAny,
                    "exception", EmptyAny, {}, FALSE)
    /\ UNCHANGED <<fields, info, initialized, pc, cur, regStep, regRuns, ub,
                   log, result, argv, gen, srv>>

\* The callback, before its first registration call, calls the accessor of
\* class c (of its own class, by creating an instance and asking for its
\* type info, or of another class).
ReenterAccessor(c) ==
    /\ InCallback
    /\ Top.step = 0
    /\ Len(stack) < MaxDepth
    /\ Enter(c)
    /\ UNCHANGED <<fields, info, initialized, pc, cur, regStep, last, ub,
                   log, argv, gen, srv>>

\* The callback has returned: initialized = true; return info.
ReturnAccessor ==
    /\ stack # << >>
    /\ Top.step = Len(DemoRegistration(Top.class))
    /\ initialized' = [initialized EXCEPT ![Top.class] = TRUE]
    /\ stack' = SubSeq(stack, 1, Len(stack) - 1)
    /\ result' = Result("getStaticTypeInfo", Top.class, "", "ok",
                        info[Top.class])
    /\ UNCHANGED <<fields, info, pc, cur, regStep, regRuns, last, ub, log,
                   argv, gen, srv>>

\* Every class has been accessed: the catalogues are complete.
InitObj ==
    /\ fields = [o \in SeqObjects |->
                   IF SeqClassOf(o) = "Person" THEN DemoPersonInit
                                               ELSE DemoVehicleInit]
    /\ info = [c \in DemoClasses |-> DemoTypeInfo(c)]
    /\ initialized = [c \in DemoClasses |-> TRUE]
    /\ pc = [t \in Threads |-> "idle"]
    /\ cur = [t \in Threads |-> "none"]
    /\ regStep = [t \in Threads |-> 0]
    /\ regRuns = [c \in DemoClasses |-> 1]
    /\ last = NoCall
    /\ ub = FALSE
    /\ log = [c \in DemoClasses |-> << >>]
    /\ result = NoResult
    /\ argv = << >>
    /\ gen = NoGenerator
    /\ stack = << >>
    /\ srv = NoServer

\* The by-name operations on an object whose getTypeInfo() returns at once.
Usable(o) == stack = << >> /\ initialized[SeqClassOf(o)]

SeqFrame == <<info, initialized, pc, cur, regStep, regRuns, ub, log, result,
              argv, gen, stack, srv>>

\* Variant of setMemberValue on an object in which the member is a static
\* data member, one for all instances of the class.
SeqSetMemberValueStatic(o, n, value) ==
    /\ Usable(o)
    /\ LET r == setMemberValue(info[SeqClassOf(o)], fields[o], n, value)
       IN  /\ fields' = [p \in SeqObjects |->
                           IF SeqClassOf(p) = SeqClassOf(o)
                              /\ r.status = "ok" /\ n \in DOMAIN fields[p]
                           THEN [fields[p] EXCEPT ![n] = r.fields[n]]
                           ELSE fields[p]]
           /\ last' = Call("setMemberValue", o, n, << >>, value,
                           r.status, EmptyAny, {}, FALSE)
    /\ UNCHANGED SeqFrame

SeqSetMemberValue(o, n, value) ==
    /\ Usable(o)
    /\ LET r == setMemberValue(info[SeqClassOf(o)], fields[o], n, value)
       IN  /\ fields' = [fields EXCEPT ![o] = r.fields]
           /\ last' = Call("setMemberValue", o, n, << >>, value,
                           r.status, EmptyAny, {}, FALSE)
    /\ UNCHANGED SeqFrame

SeqGetMemberValue(o, n) ==
    /\ Usable(o)
    /\ LET r == getMemberValue(info[SeqClassOf(o)], fields[o], n)
       IN  last' = Call("getMemberValue", o, n, << >>, EmptyAny, r.status,
                        r.ret, {}, FALSE)
    /\ UNCHANGED <<fields, SeqFrame>>

SeqHasMember(o, n) ==
    /\ Usable(o)
    /\ last' = Call("hasMember", o, n, << >>, EmptyAny, "ok",
                    MakeAny("bool", IF hasMemberEntry(info[SeqClassOf(o)], n)
                                    THEN 1 ELSE 0), {}, FALSE)
    /\ UNCHANGED <<fields, SeqFrame>>

SeqHasMethod(o, n) ==
    /\ Usable(o)
    /\ last' = Call("hasMethod", o, n, << >>, EmptyAny, "ok",
                    MakeAny("bool", IF hasMethodEntry(info[SeqClassOf(o)], n)
                                    THEN 1 ELSE 0), {}, FALSE)
    /\ UNCHANGED <<fields, SeqFrame>>

SeqGetMemberNames(o) ==
    /\ Usable(o)
    /\ last' = Call("getMemberNames", o, "", << >>, EmptyAny, "ok",
                    EmptyAny, getMemberNames(info[SeqClassOf(o)]), FALSE)
    /\ UNCHANGED <<fields, SeqFrame>>

SeqGetMethodNames(o) ==
    /\ Usable(o)
    /\ last' = Call("getMethodNames", o, "", << >>, EmptyAny, "ok",
                    EmptyAny, getMethodNames(info[SeqClassOf(o)]), FALSE)
    /\ UNCHANGED <<fields, SeqFrame>>

\* The names and values the by-name operations are given.
SeqNames == {"age", "name", "year", "getAge", "weight"}
SeqValues == {MakeAny(T, v) : T \in {"int", "std::string"}, v \in Vals}

NextSeq ==
    \/ \E c \in DemoClasses : EnterAccessor(c)
    \/ RegisterEntry
    \/ RegistrationThrows
    \/ \E c \in DemoClasses : ReenterAccessor(c)
    \/ ReturnAccessor
    \/ \E o \in SeqObjects : SeqGetMemberNames(o)
    \/ \E o \in SeqObjects : SeqGetMethodNames(o)

SpecSeq == InitSeq /\ [][NextSeq]_vars

NextObj ==
    \/ \E o \in SeqObjects, n \in SeqNames, v \in SeqValues :
          SeqSetMemberValue(o, n, v)
    \/ \E o \in SeqObjects, n \in SeqNames : SeqGetMemberValue(o, n)
    \/ \E o \in SeqObjects, n \in SeqNames : SeqHasMember(o, n)
    \/ \E o \in SeqObjects, n \in SeqNames : SeqHasMethod(o, n)
    \/ \E o \in SeqObjects : SeqGetMemberNames(o)
    \/ \E o \in SeqObjects : SeqGetMethodNames(o)

SpecObj == InitObj /\ [][NextObj]_vars

\* The complete catalogue of class c.
Complete(c) == RegisterAll(EmptyInfo(c), DemoRegistration(c), 1)

\* C22: a class has one catalogue, shared by its instances and independent
\* of the other classes: the names an instance enumerates are those any
\* other instance of its class enumerates, and a step of the accessor or of
\* the registration of one class changes the catalogue of no other class.
C22_OneCataloguePerClass ==
    [][ /\ \A B \in DemoClasses :
             info'[B] # info[B] => stack # << >> /\ Top.class = B
        /\ last'.op \in {"getMemberNames", "getMethodNames"}
           => \A o \in SeqObjects :
                 SeqClassOf(o) = SeqClassOf(last'.obj)
                 => last'.names =
                      IF last'.op = "getMemberNames"
                      THEN getMemberNames(info'[SeqClassOf(o)])
                      ELSE getMethodNames(info'[SeqClassOf(o)]) ]_vars

\* The second Person enumerates the members of Person while the catalogue
\* of Vehicle is still empty.
C22_Witness ==
    /\ last.op = "getMemberNames"
    /\ last.obj = "p2"
    /\ last.names = {"name", "age", "height", "isActive"}
    /\ info["Vehicle"] = EmptyInfo("Vehicle")

\* C26: in a sequential execution the accessor returns only a catalogue
\* whose registration pass has run to completion, also after an earlier pass
\* was left by an exception with some entries registered and the flag false.
C26_ReturnsCompleteCatalogue ==
    (result.op = "getStaticTypeInfo" /\ result.status = "ok")
    => /\ result.value = Complete(result.class)
       /\ initialized[result.class]

\* A pass of Person was left by an exception, and the accessor called again
\* has returned.
C26_Witness ==
    /\ last.op = "getStaticTypeInfo"
    /\ last.status = "exception"
    /\ last.name = "Person"
    /\ result.op = "getStaticTypeInfo"
    /\ result.class = "Person"
    /\ result.status = "ok"
    /\ regRuns["Person"] = 2
    /\ stack = << >>

\* C27: an accessor call made from inside the registration callback of its
\* own class starts no nested registration pass: no two accessor calls in
\* progress run the callback of the same class.
C27_NoNestedPass ==
    \A i, j \in DOMAIN stack : i # j => stack[i].class # stack[j].class

ReadOps == {"getMemberValue", "hasMember", "hasMethod", "getMemberNames",
            "getMethodNames"}

\* C25: a successful setMemberValue(m, v) on an instance changes field m of
\* that instance only: every other field of it and every field of every
\* other instance keeps its value; getMemberValue, hasMember, hasMethod and
\* the name enumerations change no field.
C25_SetChangesOneField ==
    [][ /\ (last'.op = "setMemberValue" /\ last'.status = "ok")
           => \A o \in SeqObjects : \A m \in DOMAIN fields[o] :
                 (o # last'.obj \/ m # last'.name)
                 => fields'[o][m] = fields[o][m]
        /\ last'.op \in ReadOps => fields' = fields ]_vars

\* The age of the first Person was set to 1 while the second Person keeps
\* the age it was constructed with.
C25_Witness ==
    /\ last.op = "setMemberValue"
    /\ last.obj = "p1"
    /\ last.name = "age"
    /\ last.status = "ok"
    /\ fields["p1"].age = 1
    /\ fields["p2"].age = 0

\* ===================================================== WebSocket GUI server
\* The classes of the objects the server is given: Person of
\* src/examples/socket/main.cxx, and a class Probe with members of the other
\* built-in tags (the server takes any Introspectable).
ServerClasses == {"Person", "Probe"}
ServerObjects == {"person", "probe"}
ServerClassOf(o) == IF o = "person" THEN "Person" ELSE "Probe"

SocketPersonRegistration ==
    << MemberEntry("name", "std::string"),
       MemberEntry("age", "int"),
       MemberEntry("height", "double"),
       MemberEntry("isActive", "bool"),
       MethodEntry("introduce", CppType("void"), << >>),
       MethodEntry("celebrateBirthday", CppType("void"), << >>),
       MethodEntry("grow", CppType("void"), <<CppType("double")>>),
       MethodEntry("getInfo", CppType("std::string"), << >>),
       MethodEntry("toggleActive", CppType("void"), << >>),
       MethodEntry("getName", CppType("std::string"), << >>),
       MethodEntry("setName", CppType("void"), <<ConstRef("std::string")>>),
       MethodEntry("getAge", CppType("int"), << >>),
       MethodEntry("setAge", CppType("void"), <<CppType("int")>>),
       MethodEntry("getHeight", CppType("double"), << >>),
       MethodEntry("setHeight", CppType("void"), <<CppType("double")>>),
       MethodEntry("getIsActive", CppType("bool"), << >>),
       MethodEntry("setIsActive", CppType("void"), <<CppType("bool")>>) >>

\* class Probe { std::string label; float level; long count;
\*               std::vector<int> samples; }, every member registered.
ProbeRegistration ==
    << MemberEntry("label", "std::string"),
       MemberEntry("level", "float"),
       MemberEntry("count", "long"),
       MemberEntry("samples", "std::vector<int>") >>

ServerTypeInfo(c) ==
    RegisterAll(EmptyInfo(c),
                IF c = "Person" THEN SocketPersonRegistration
                                ELSE ProbeRegistration, 1)

\* Person() : name("Anonymous"), age(0), height(0.0), isActive(true)
SocketPersonInit ==
    [name |-> "Anonymous", age |-> 0, height |-> 0, isActive |-> 1]
ProbeInit == [label |-> "", level |-> 0, count |-> 0, samples |-> 0]

\* std::to_string of a non-negative int: its decimal digits.
Digit(d) ==
    CASE d = 0 -> "0" [] d = 1 -> "1" [] d = 2 -> "2" [] d = 3 -> "3"
      [] d = 4 -> "4" [] d = 5 -> "5" [] d = 6 -> "6" [] d = 7 -> "7"
      [] d = 8 -> "8" [] d = 9 -> "9"

RECURSIVE to_string(_)
to_string(n) ==
    IF n < 10 THEN <<Digit(n)>>
    ELSE to_string(n \div 10) \o <<Digit(n % 10)>>

\* std::to_string of a double: "%f", six digits after the point.
to_string_double(n) == to_string(n) \o <<".", "0", "0", "0", "0", "0", "0">>

\* The JSON text written for "value": a quoted string, a number, a literal.
JsonNull == [json |-> "literal", text |-> <<"null">>]

\* The if / else-if chain of generateObjectJson and
\* generateObjectStateMessage on member->type_name.
JsonValue(type_name, value) ==
    IF type_name = "string"
    THEN LET c == any_cast("std::string", value)
         IN  [status |-> IF c.ok THEN "ok" ELSE "TypeMismatch",
              out |-> [json |-> "string", text |-> <<c.val>>]]
    ELSE IF type_name = "int"
    THEN LET c == any_cast("int", value)
         IN  [status |-> IF c.ok THEN "ok" ELSE "TypeMismatch",
              out |-> [json |-> "number", text |-> to_string(c.val)]]
    ELSE IF type_name = "double"
    THEN LET c == any_cast("double", value)
         IN  [status |-> IF c.ok THEN "ok" ELSE "TypeMismatch",
              out |-> [json |-> "number", text |-> to_string_double(c.val)]]
    ELSE IF type_name = "bool"
    THEN LET c == any_cast("bool", value)
         IN  [status |-> IF c.ok THEN "ok" ELSE "TypeMismatch",
              out |-> [json |-> "literal",
                       text |-> IF c.val # 0 THEN <<"true">>
                                             ELSE <<"false">>]]
    ELSE [status |-> "ok", out |-> JsonNull]

\* The order in which getMemberNames() lists the members of a catalogue: one
\* order for one map, each name once.
RECURSIVE ListOf(_)
ListOf(names) ==
    IF names = {} THEN << >>
    ELSE LET n == CHOOSE x \in names : TRUE
         IN  <<n>> \o ListOf(names \ {n})

MemberOrder(ti) == ListOf(getMemberNames(ti))

\* The "members" object both dumps build: one entry per listed name, holding
\* the member's name, its tag and the value text.
JsonMembers(ti, f) ==
    LET member_names == MemberOrder(ti)
    IN  [i \in 1..Len(member_names) |->
           LET member == getMember(ti, member_names[i])
               v == JsonValue(member.type_name, Getter(member, f))
           IN  [name |-> member.name, type |-> member.type_name,
                status |-> v.status, value |-> v.out]]

\* generateObjectJson(): {"className": ..., "members": {...}}; a failed
\* any_cast leaves the function as std::bad_any_cast.
generateObjectJson(ti, f) ==
    LET ms == JsonMembers(ti, f)
    IN  [status |-> IF \E i \in DOMAIN ms : ms[i].status # "ok"
                    THEN "TypeMismatch" ELSE "ok",
         className |-> ti.class_name,
         members |-> [i \in DOMAIN ms |->
                        [name |-> ms[i].name, type |-> ms[i].type,
                         value |-> ms[i].value]]]

\* generateObjectStateMessage(): the same members and the time in
\* milliseconds at which the message is built.
generateObjectStateMessage(ti, f, now) ==
    [type |-> "state", className |-> ti.class_name,
     members |-> generateObjectJson(ti, f).members, timestamp |-> now]

\* The connections clients open, the field names and value texts of the
\* update messages, and the method names of the method messages.
Connections == {"c1", "c2"}
UpdateFields == {"age", "name", "level", "nosuch", ""}
UpdateValues == {"0", "1", "1x", "x"}
MethodMessageNames == {"introduce", "nosuch"}

\* How many refresh intervals the clock is followed for.
MaxTime == 2

\* std::stoi / std::stod: the leading digits are converted and what follows
\* them is ignored; std::invalid_argument without leading digits.
stoi(value) ==
    CASE value = "0" -> [ok |-> TRUE, val |-> 0]
      [] value = "1" -> [ok |-> TRUE, val |-> 1]
      [] value = "1x" -> [ok |-> TRUE, val |-> 1]
      [] OTHER -> [ok |-> FALSE, val |-> 0]

\* updateMemberFromString: std::runtime_error for an unknown field; the
\* value is converted by the tag of the member and set; for any tag other
\* than string, int, double and bool nothing is done.
updateMemberFromString(ti, f, field, value) ==
    LET member == getMember(ti, field)
    IN  IF member = nullptr THEN [status |-> "NotFound", fields |-> f]
        ELSE IF member.type_name = "string"
        THEN setMemberValue(ti, f, field, MakeAny("std::string", value))
        ELSE IF member.type_name \in {"int", "double"}
        THEN LET n == stoi(value)
             IN  IF n.ok
                 THEN setMemberValue(ti, f, field,
                                     MakeAny(member.type_name, n.val))
                 ELSE [status |-> "InvalidArgument", fields |-> f]
        ELSE IF member.type_name = "bool"
        THEN setMemberValue(ti, f, field,
                            MakeAny("bool", IF value \in {"true", "1"}
                                            THEN 1 ELSE 0))
        ELSE [status |-> "ok", fields |-> f]

\* WebSocketGuiServer(obj, port, refresh_ms) followed by start(): no
\* connection, last_state empty, the refresh thread running.  The catalogue
\* of the target's class is built.
NewServer(o) ==
    [kind |-> "gui", target |-> o, active_connections |-> {},
     last_state |-> << >>, now |-> 0, sent |-> << >>]

InitServer ==
    /\ fields = [o \in ServerObjects |->
                   IF o = "person" THEN SocketPersonInit ELSE ProbeInit]
    /\ info = [c \in ServerClasses |-> ServerTypeInfo(c)]
    /\ initialized = [c \in ServerClasses |-> TRUE]
    /\ pc = [t \in Threads |-> "idle"]
    /\ cur = [t \in Threads |-> "none"]
    /\ regStep = [t \in Threads |-> 0]
    /\ regRuns = [c \in ServerClasses |-> 1]
    /\ last = NoCall
    /\ ub = FALSE
    /\ log = [c \in ServerClasses |-> << >>]
    /\ result = NoResult
    /\ argv = << >>
    /\ gen = NoGenerator
    /\ stack = << >>
    /\ srv \in {NewServer(o) : o \in ServerObjects}

TargetInfo == info[ServerClassOf(srv.target)]
TargetFields == fields[srv.target]

\* What the handlers leave alone.
ServerFrame == <<info, initialized, pc, cur, regStep, regRuns, last, ub, log,
                 argv, gen, stack>>

\* conn.send(message) to one connection; the state message to a set of them.
Send(conn, message) == <<[to |-> conn, message |-> message]>>

RECURSIVE SendAll(_, _)
SendAll(conns, message) ==
    IF conns = {} THEN << >>
    ELSE LET c == CHOOSE x \in conns : TRUE
         IN  Send(c, message) \o SendAll(conns \ {c}, message)

\* broadcastObjectState() with the members f: the state message is built and
\* sent to every active connection.
Broadcast(f) ==
    SendAll(srv.active_connections,
            generateObjectStateMessage(TargetInfo, f, srv.now))

ErrorMessage(st) == [type |-> "error", message |-> st]

\* handleWebSocketConnection: the connection is inserted and sent the state.
Connect(conn) ==
    /\ conn \notin srv.active_connections
    /\ srv' = [srv EXCEPT
                 !.active_connections = @ \cup {conn},
                 !.sent = Send(conn, generateObjectStateMessage(
                                        TargetInfo, TargetFields, srv.now))]
    /\ result' = Result("connect", ServerClassOf(srv.target), conn, "ok",
                        << >>)
    /\ UNCHANGED <<fields, ServerFrame>>

\* The close handler of a connection.
Close(conn) ==
    /\ conn \in srv.active_connections
    /\ srv' = [srv EXCEPT !.active_connections = @ \ {conn},
                          !.sent = << >>]
    /\ result' = Result("close", ServerClassOf(srv.target), conn, "ok", << >>)
    /\ UNCHANGED <<fields, ServerFrame>>

\* handleWebSocketMessage with {"type":"update","field":f,"value":v}: a
\* message without field is passed over; an exception of
\* updateMemberFromString is answered with an error message; otherwise the
\* state is broadcast and update_success is sent.
UpdateMessage(conn, field, value) ==
    /\ conn \in srv.active_connections
    /\ LET r == updateMemberFromString(TargetInfo, TargetFields, field, value)
       IN  IF field = ""
           THEN /\ srv' = [srv EXCEPT !.sent = << >>]
                /\ result' = Result("update", ServerClassOf(srv.target),
                                    field, "ok", [value |-> value])
                /\ UNCHANGED fields
           ELSE IF r.status # "ok"
           THEN /\ srv' = [srv EXCEPT
                             !.sent = Send(conn, ErrorMessage(r.status))]
                /\ result' = Result("update", ServerClassOf(srv.target),
                                    field, r.status, [value |-> value])
                /\ UNCHANGED fields
           ELSE /\ fields' = [fields EXCEPT ![srv.target] = r.fields]
                /\ srv' = [srv EXCEPT
                             !.sent = Broadcast(r.fields)
                                      \o Send(conn,
                                              [type |-> "update_success",
                                               field |-> field])]
                /\ result' = Result("update", ServerClassOf(srv.target),
                                    field, "ok", [value |-> value])
    /\ UNCHANGED ServerFrame

\* handleWebSocketMessage with {"type":"method","name":n}: the method is
\* called with no argument.
MethodMessage(conn, name) ==
    /\ conn \in srv.active_connections
    /\ ~ub
    /\ \E r \in callMethod(TargetInfo, TargetFields, name, << >>) :
          IF r.status # "ok"
          THEN /\ srv' = [srv EXCEPT
                            !.sent = Send(conn, ErrorMessage(r.status))]
               /\ result' = Result("method", ServerClassOf(srv.target),
                                   name, r.status, << >>)
               /\ UNCHANGED fields
          ELSE /\ fields' = [fields EXCEPT ![srv.target] = r.fields]
               /\ srv' = [srv EXCEPT
                            !.sent = Broadcast(r.fields)
                                     \o Send(conn,
                                             [type |-> "method_success",
                                              method |-> name])]
               /\ result' = Result("method", ServerClassOf(srv.target),
                                   name, "ok", << >>)
    /\ UNCHANGED ServerFrame

\* handleWebSocketMessage with {"type":"ping"}.
Ping(conn) ==
    /\ conn \in srv.active_connections
    /\ srv' = [srv EXCEPT !.sent = Send(conn, [type |-> "pong"])]
    /\ result' = Result("ping", ServerClassOf(srv.target), conn, "ok", << >>)
    /\ UNCHANGED <<fields, ServerFrame>>

\* GET /api/object
GetApiObject ==
    /\ LET json == generateObjectJson(TargetInfo, TargetFields)
       IN  result' = Result("generateObjectJson", ServerClassOf(srv.target),
                            "", json.status, json.members)
    /\ srv' = [srv EXCEPT !.sent = << >>]
    /\ UNCHANGED <<fields, ServerFrame>>

\* One turn of the loop of the refresh thread: it sleeps for the refresh
\* interval; with a connection open it builds the state message and, if the
\* message differs from last_state, stores it and broadcasts.
RefreshTick ==
    /\ srv.now < MaxTime
    /\ LET now == srv.now + 1
           current_state ==
               generateObjectStateMessage(TargetInfo, TargetFields, now)
       IN  IF srv.active_connections # {} /\ current_state # srv.last_state
           THEN srv' = [srv EXCEPT
                          !.now = now,
                          !.last_state = current_state,
                          !.sent = SendAll(srv.active_connections,
                                           generateObjectStateMessage(
                                              TargetInfo, TargetFields, now))]
           ELSE srv' = [srv EXCEPT !.now = now, !.sent = << >>]
    /\ result' = Result("refresh", ServerClassOf(srv.target), "", "ok", << >>)
    /\ UNCHANGED <<fields, ServerFrame>>

NextServer ==
    \/ \E c \in Connections : Connect(c)
    \/ \E c \in Connections : Close(c)
    \/ \E c \in Connections, f \in UpdateFields, v \in UpdateValues :
          UpdateMessage(c, f, v)
    \/ \E c \in Connections, n \in MethodMessageNames : MethodMessage(c, n)
    \/ \E c \in Connections : Ping(c)
    \/ GetApiObject
    \/ RefreshTick

SpecServer == InitServer /\ [][NextServer]_vars

\* The tags of the primitive categories.
PrimitiveTags ==
    {"string", "int", "double", "float", "bool", "short", "unsigned short",
     "long", "unsigned long", "long long", "unsigned int", "size_t", "char",
     "unsigned char"}

\* C24: the JSON dump of an object holds every registered member at most
\* once, gives a member of a primitive tag its current value and a member of
\* any other tag null, and does not fail.
C24_PrimitiveMembersDumped ==
    result.op = "generateObjectJson"
    => /\ result.status = "ok"
       /\ \A i, j \in DOMAIN result.value :
             result.value[i].name = result.value[j].name => i = j
       /\ \A m \in getMemberNames(TargetInfo) :
             getMember(TargetInfo, m).type_name \in PrimitiveTags
             => \E i \in DOMAIN result.value : result.value[i].name = m
       /\ \A i \in DOMAIN result.value :
             LET e == result.value[i]
                 v == fields[srv.target][e.name]
             IN  IF e.type \notin PrimitiveTags THEN e.value = JsonNull
                 ELSE /\ e.value # JsonNull
                      /\ e.type = "string" => e.value.text = <<v>>
                      /\ e.type \in {"int", "long"}
                         => e.value.text = to_string(v)

\* The members object of the state message built from the target now.
CurrentMembers ==
    generateObjectStateMessage(TargetInfo, TargetFields, 0).members

\* C29: a refresh tick at which the members of the target are those of the
\* previous broadcast made by the refresh thread sends nothing.
C29_UnchangedStateNotResent ==
    [][ (/\ srv'.now # srv.now
         /\ srv.last_state # << >>
         /\ srv.last_state.members = CurrentMembers)
        => srv'.sent = << >> ]_vars

\* The characters of the value texts of the update messages.
ValueChars(value) ==
    CASE value = "0" -> <<"0">>
      [] value = "1" -> <<"1">>
      [] value = "1x" -> <<"1", "x">>
      [] value = "x" -> <<"x">>

\* Some message of the given type was sent by the latest handler.
Answered(s, type) == \E i \in DOMAIN s.sent : s.sent[i].message.type = type

\* C30: an update of field f is answered with update_success only if member
\* f of the target now holds the supplied value; an update of an unknown
\* field, of a member whose tag is not string, int, double or bool, or with
\* a value that is no number for a numeric member, is answered with an error
\* message and changes no member.
C30_UpdateAnswered ==
    [][ result'.op = "update"
        => LET field == result'.name
               value == result'.value.value
               member == getMember(TargetInfo, field)
               numeric == member # nullptr
                          /\ member.type_name \in {"int", "double"}
           IN  /\ Answered(srv', "update_success")
                  => /\ member # nullptr
                     /\ IF member.type_name = "string"
                        THEN fields'[srv.target][field] = value
                        ELSE to_string(fields'[srv.target][field])
                               = ValueChars(value)
               /\ (\/ member = nullptr
                   \/ member.type_name \notin {"string", "int", "double",
                                               "bool"}
                   \/ numeric /\ value \notin {"0", "1"})
                  => /\ Answered(srv', "error")
                     /\ fields' = fields ]_vars

\* ---------------------------------------------------------------------------
\* The threads of the WebSocket server and connections_mutex
\* (src/examples/socket/websocket_gui.h).  Every step is one statement of a
\* handler; a thread whose position is an access label is inside that call
\* on active_connections.
\* ---------------------------------------------------------------------------

\* One server thread per connection, the refresh thread, the thread of stop().
HandlerThreads == {"h1", "h2"}
ServerThreads == HandlerThreads \cup {"refresh", "main"}
ConnOf(h) == IF h = "h1" THEN "c1" ELSE "c2"

\* The positions at which a thread reads, and at which it modifies, the set.
ReadLabels == {"size", "empty", "iterate", "erase"}
WriteLabels == {"insert", "iterate", "erase", "clear"}

NewConnServer ==
    [kind |-> "conn", active_connections |-> {}, connections_mutex |-> "none",
     state_mutex |-> "none", running |-> TRUE,
     at |-> [t \in ServerThreads |->
               IF t = "refresh" THEN "sleep"
               ELSE IF t = "main" THEN "listen" ELSE "idle"],
     seen |-> [t \in ServerThreads |-> 0]]

InitConn ==
    /\ fields = [o \in ServerObjects |->
                   IF o = "person" THEN SocketPersonInit ELSE ProbeInit]
    /\ info = [c \in ServerClasses |-> ServerTypeInfo(c)]
    /\ initialized = [c \in ServerClasses |-> TRUE]
    /\ pc = [t \in Threads |-> "idle"]
    /\ cur = [t \in Threads |-> "none"]
    /\ regStep = [t \in Threads |-> 0]
    /\ regRuns = [c \in ServerClasses |-> 1]
    /\ last = NoCall
    /\ ub = FALSE
    /\ log = [c \in ServerClasses |-> << >>]
    /\ result = NoResult
    /\ argv = << >>
    /\ gen = NoGenerator
    /\ stack = << >>
    /\ srv = NewConnServer

ConnFrame == <<fields, info, initialized, pc, cur, regStep, regRuns, last,
               log, result, argv, gen, stack>>

\* Another thread is inside a modification of the set.
WriterBeside(t) ==
    \E u \in ServerThreads \ {t} : srv.at[u] \in WriteLabels

\* What a read of the set yields: its value, or anything when the read
\* overlaps a modification by another thread (a data race).
ReadOutcomes(t, value, range) == IF WriterBeside(t) THEN range ELSE {value}

Goto(t, label) == [srv.at EXCEPT ![t] = label]

\* std::lock_guard<std::mutex> lock(connections_mutex), then the access.
LockConnections(t, from, to) ==
    /\ srv.at[t] = from
    /\ srv.connections_mutex = "none"
    /\ srv' = [srv EXCEPT !.connections_mutex = t, !.at = Goto(t, to)]
    /\ UNCHANGED ConnFrame
    /\ UNCHANGED ub

\* handleWebSocketConnection: lock, insert, unlock ...
HandlerLock(h) ==
    /\ srv.at["main"] = "listen"
    /\ LockConnections(h, "idle", "insert")

HandlerInsert(h) ==
    /\ srv.at[h] = "insert"
    /\ srv' = [srv EXCEPT
                 !.active_connections = @ \cup {ConnOf(h)},
                 !.connections_mutex = "none",
                 !.at = Goto(h, "size")]
    /\ UNCHANGED ConnFrame
    /\ UNCHANGED ub

\* ... then active_connections.size() for the log line, after the scope of
\* the lock_guard has ended.
HandlerSize(h) ==
    /\ srv.at[h] = "size"
    /\ \E n \in ReadOutcomes(h, Cardinality(srv.active_connections),
                             0 .. Cardinality(Connections)) :
          srv' = [srv EXCEPT !.seen = [@ EXCEPT ![h] = n],
                             !.at = Goto(h, "open")]
    /\ ub' = (ub \/ WriterBeside(h))
    /\ UNCHANGED ConnFrame

\* An update or method message: the handler broadcasts the state.
HandlerMessage(h) ==
    /\ srv.at[h] = "open"
    /\ LockConnections(h, "open", "iterate")

\* The close handler: lock, erase, size, unlock.
CloseLock(h) ==
    /\ srv.at[h] = "open"
    /\ LockConnections(h, "open", "erase")

CloseErase(h) ==
    /\ srv.at[h] = "erase"
    /\ srv' = [srv EXCEPT
                 !.active_connections = @ \ {ConnOf(h)},
                 !.seen = [@ EXCEPT ![h] =
                             Cardinality(srv.active_connections \ {ConnOf(h)})],
                 !.connections_mutex = "none",
                 !.at = Goto(h, "idle")]
    /\ UNCHANGED ConnFrame
    /\ UNCHANGED ub

\* broadcastObjectState under the lock: send to every connection, erase the
\* dead ones; the refresh thread then leaves the scope of state_mutex too.
BroadcastIterate(t) ==
    /\ srv.at[t] = "iterate"
    /\ \E dead \in SUBSET srv.active_connections :
          srv' = [srv EXCEPT
                    !.active_connections = @ \ dead,
                    !.connections_mutex = "none",
                    !.state_mutex = IF t = "refresh" THEN "none" ELSE @,
                    !.at = Goto(t, IF t = "refresh" THEN "sleep" ELSE "open")]
    /\ UNCHANGED ConnFrame
    /\ UNCHANGED ub

\* The refresh thread: while (running) { sleep_for(refresh_interval); ...
RefreshWake ==
    /\ srv.at["refresh"] = "sleep"
    /\ srv' = [srv EXCEPT
                 !.at = Goto("refresh", IF srv.running THEN "empty" ELSE "done")]
    /\ UNCHANGED ConnFrame
    /\ UNCHANGED ub

\* ... if (!active_connections.empty()), with no lock held ...
RefreshEmpty ==
    /\ srv.at["refresh"] = "empty"
    /\ \E e \in ReadOutcomes("refresh",
                             IF srv.active_connections = {} THEN 1 ELSE 0,
                             {0, 1}) :
          srv' = [srv EXCEPT
                    !.seen = [@ EXCEPT !["refresh"] = e],
                    !.at = Goto("refresh",
                                IF e = 1 THEN "sleep" ELSE "compare")]
    /\ ub' = (ub \/ WriterBeside("refresh"))
    /\ UNCHANGED ConnFrame

\* ... lock state_mutex, compare with last_state, broadcast when different.
RefreshCompare ==
    /\ srv.at["refresh"] = "compare"
    /\ srv.state_mutex = "none"
    /\ \E differs \in BOOLEAN :
          srv' = [srv EXCEPT
                    !.state_mutex = IF differs THEN "refresh" ELSE "none",
                    !.at = Goto("refresh",
                                IF differs THEN "broadcast" ELSE "sleep")]
    /\ UNCHANGED ConnFrame
    /\ UNCHANGED ub

RefreshBroadcast ==
    /\ srv.at["refresh"] = "broadcast"
    /\ LockConnections("refresh", "broadcast", "iterate")

\* stop(): running = false, join, server.stop(), lock, close all, clear.
Stop ==
    /\ srv.at["main"] = "listen"
    /\ srv' = [srv EXCEPT !.running = FALSE, !.at = Goto("main", "join")]
    /\ UNCHANGED ConnFrame
    /\ UNCHANGED ub

StopJoin ==
    /\ srv.at["main"] = "join"
    /\ srv.at["refresh"] = "done"
    /\ srv' = [srv EXCEPT !.at = Goto("main", "joined")]
    /\ UNCHANGED ConnFrame
    /\ UNCHANGED ub

StopLock ==
    /\ srv.at["main"] = "joined"
    /\ LockConnections("main", "joined", "clear")

StopClear ==
    /\ srv.at["main"] = "clear"
    /\ srv' = [srv EXCEPT !.active_connections = {},
                          !.connections_mutex = "none",
                          !.at = Goto("main", "stopped")]
    /\ UNCHANGED ConnFrame
    /\ UNCHANGED ub

NextConn ==
    \/ \E h \in HandlerThreads : HandlerLock(h)
    \/ \E h \in HandlerThreads : HandlerInsert(h)
    \/ \E h \in HandlerThreads : HandlerSize(h)
    \/ \E h \in HandlerThreads : HandlerMessage(h)
    \/ \E h \in HandlerThreads : CloseLock(h)
    \/ \E h \in HandlerThreads : CloseErase(h)
    \/ \E t \in HandlerThreads \cup {"refresh"} : BroadcastIterate(t)
    \/ RefreshWake
    \/ RefreshEmpty
    \/ RefreshCompare
    \/ RefreshBroadcast
    \/ Stop
    \/ StopJoin
    \/ StopLock
    \/ StopClear

SpecConn == InitConn /\ [][NextConn]_vars

\* C28: a thread that is inside a read or a write of active_connections
\* holds connections_mutex, and no thread is inside a read of the set while
\* another is inside an insert, erase or clear.
C28_ConnectionsUnderMutex ==
    srv.kind = "conn"
    => /\ \A t \in ServerThreads :
             srv.at[t] \in ReadLabels \cup WriteLabels
             => srv.connections_mutex = t
       /\ \A t, u \in ServerThreads :
             t # u /\ srv.at[t] \in ReadLabels => srv.at[u] \notin WriteLabels

====
